---- MODULE Spec2Model ----
(***************************************************************************)
(* A model of easy_server: the server file loader (_load_server_file),     *)
(* the vault file binding (VaultFile, _load_vault_file), the Server record *)
(* and the query methods of ServerFile.                                    *)
(*                                                                         *)
(* Python objects that can be mutated by a caller (the dicts of            *)
(* user_defined and of the secrets) live on a heap of objects with         *)
(* identity, so that sharing and copying are observable.                   *)
(***************************************************************************)
EXTENDS Naturals, Sequences, FiniteSets, TLC

VARIABLES
    env,      \* the inputs: server file, vault file, constructor arguments
    keyring,  \* the keyring service: the password stored for the vault path
    sf,       \* the ServerFile object (and its VaultFile)
    heap,     \* the mutable dict objects: Seq of [v, child]
    result,   \* what the last call returned or raised
    held,     \* roots of the objects handed to the caller so far
    nmut,     \* number of caller mutations so far
    calls     \* the call each thread has in progress on the ServerFile

vars == <<env, keyring, sf, heap, result, held, nmut, calls>>

----------------------------------------------------------------------------
(* Bounds of the model *)

\* at most this many members, over all server groups, in the files of
\* SpecResolve
MaxEdges == 3
\* at most this many members, over all server groups, in the files of SpecLoad
MaxLoadEdges == 2
\* at most this many heap objects
MaxHeap == 8
\* at most this many mutations by the caller
MaxMut == 1
\* depth at which the interpreter gives up a recursion (RecursionError)
RecursionLimit == 6

----------------------------------------------------------------------------
(* Python values *)

\* Python None; distinct from every string of the model
None == "<None>"
\* a key that is not in a dict
Absent == "<absent>"
\* the null reference on the heap
Nil == 0
\* the value a caller writes when it mutates a dict
MutVal == 9

\* bool(x) of a string or None: None and '' are false
Truthy(x) == x # None /\ x # ""

\* x in l, for a list l
InList(x, l) == \E i \in 1..Len(l) : l[i] = x

\* the index of key k in a dict kept as a list of items with field nick; 0 if
\* there is none
RECURSIVE IndexOf(_, _, _)
IndexOf(items, k, i) ==
    IF i > Len(items) THEN 0
    ELSE IF items[i].nick = k THEN i
    ELSE IndexOf(items, k, i + 1)

HasKey(items, k) == IndexOf(items, k, 1) # 0
Lookup(items, k) == items[IndexOf(items, k, 1)]
Keys(items) == [i \in 1..Len(items) |-> items[i].nick]

----------------------------------------------------------------------------
(* The heap.  A structured value {k: a, sub: {k: b}} is the chain <<a, b>>;  *)
(* on the heap it is one object per level, [v |-> a, child |-> id].        *)

AllocChain(h, pv) ==
    h \o [i \in 1..Len(pv) |->
            [v |-> pv[i], child |-> IF i < Len(pv) THEN Len(h) + i + 1 ELSE Nil]]

\* the id of the next object allocated
NewId(h) == Len(h) + 1

\* the value of the object r, all levels
RECURSIVE Deref(_, _)
Deref(h, r) == IF r = Nil THEN <<>> ELSE <<h[r].v>> \o Deref(h, h[r].child)

\* the ids of the objects reachable from r
RECURSIVE Reach(_, _)
Reach(h, r) == IF r = Nil THEN {} ELSE {r} \cup Reach(h, h[r].child)

\* copy.copy(r): a new top-level object that shares the nested one
ShallowCopyHeap(h, r) == Append(h, [v |-> h[r].v, child |-> h[r].child])

\* copy.deepcopy(r): new objects at all levels
DeepCopyHeap(h, r) == AllocChain(h, Deref(h, r))

----------------------------------------------------------------------------
(* Exceptions *)

Exc(cls, what, nick, group) ==
    [cls |-> cls, what |-> what, nick |-> nick, group |-> group]

NoExc == Exc("", "", "", "")

----------------------------------------------------------------------------
(* The server file.                                                        *)
(*   env.file = [readable, yaml_ok, doc]                                   *)
(*   doc = [kind: "object" | "list" (what the document is),                *)
(*          servers_key: "object" | "absent",                              *)
(*          servers: list of [nick, description, user_defined],            *)
(*          groups_key: "absent" | "null" | "object",                      *)
(*          server_groups: list of [nick, description, members_key,        *)
(*                                  members, user_defined],                *)
(*          default: Absent | None | string,                               *)
(*          vault_file: Absent | None | string]                            *)
(* A member of a group is a string or NotAString.                          *)
(* user_defined is a structured value (a chain), <<>> when the key is      *)
(* omitted.  A dict is a list of items in insertion order.                 *)

\* yaml.safe_load: the user_defined dicts of the server items become objects
RECURSIVE YamlServers(_, _, _)
YamlServers(h, items, i) ==
    IF i > Len(items) THEN [heap |-> h, servers |-> <<>>]
    ELSE LET it == items[i]
             h1 == IF it.user_defined = <<>> THEN h
                   ELSE AllocChain(h, it.user_defined)
             ref == IF it.user_defined = <<>> THEN Nil ELSE NewId(h)
             rest == YamlServers(h1, items, i + 1)
         IN  [heap |-> rest.heap,
              servers |-> <<[nick |-> it.nick,
                             description |-> it.description,
                             contact_name |-> it.contact_name,
                             access_via |-> it.access_via,
                             user_defined |-> ref]>> \o rest.servers]

yaml_safe_load(h, doc) ==
    LET ys == YamlServers(h, doc.servers, 1)
    IN  [heap |-> ys.heap,
         data |-> [kind |-> doc.kind,
                   servers_key |-> doc.servers_key,
                   servers |-> ys.servers,
                   groups_key |-> doc.groups_key,
                   server_groups |-> doc.server_groups,
                   default |-> doc.default,
                   vault_file |-> doc.vault_file]]

\* a member of a group that is not a string (a dict, a number)
NotAString == "<not-a-string>"

\* the segments of exc.absolute_path: keys of objects and indexes of arrays
Key(k) == [t |-> "key", k |-> k, i |-> 0]
Index(i) == [t |-> "index", k |-> "", i |-> i]

\* str(n) of an integer n >= 0
Digits == <<"0", "1", "2", "3", "4", "5", "6", "7", "8", "9">>
RECURSIVE StrInt(_)
StrInt(n) ==
    IF n < 10 THEN Digits[n + 1]
    ELSE StrInt(n \div 10) \o Digits[(n % 10) + 1]

\* str(e) of a segment
SegStr(e) == IF e.t = "index" THEN StrInt(e.i) ELSE e.k

\* a faulty variant: an index is written in brackets behind its array
RECURSIVE DotJoinBrackets(_)
DotJoinBrackets(path) ==
    IF Len(path) = 1 THEN SegStr(path[1])
    ELSE IF path[Len(path)].t = "index"
    THEN DotJoinBrackets(SubSeq(path, 1, Len(path) - 1))
            \o "[" \o SegStr(path[Len(path)]) \o "]"
    ELSE DotJoinBrackets(SubSeq(path, 1, Len(path) - 1))
            \o "." \o SegStr(path[Len(path)])

\* '.'.join(str(e) for e in exc.absolute_path), for a path that is not empty
RECURSIVE DotJoin(_)
DotJoin(path) ==
    IF Len(path) = 1 THEN SegStr(path[1])
    ELSE DotJoin(SubSeq(path, 1, Len(path) - 1)) \o "." \o SegStr(path[Len(path)])

\* elem_str
ElemStr(path) ==
    IF path # <<>> THEN "element '" \o DotJoin(path) \o "'"
    ELSE "top-level element"

\* the paths at which a group item violates the schema: a required
\* property is missing, a member is not a string
GroupViolations(g) ==
    (IF g.description = Absent \/ g.members_key = "absent"
     THEN {<<Key("server_groups"), Key(g.nick)>>} ELSE {})
    \cup {<<Key("server_groups"), Key(g.nick), Key("members"), Index(j - 1)>> :
            j \in {k \in 1..Len(g.members) : g.members[k] = NotAString}}

\* a faulty variant: null is accepted as the value of 'default'
SchemaViolationsNullDefault(data) ==
    IF data.kind # "object" THEN {<<>>}
    ELSE (IF data.servers_key = "absent" THEN {<<>>} ELSE {})
         \cup (IF data.vault_file = None THEN {<<Key("vault_file")>>} ELSE {})
         \cup (IF data.groups_key = "null" THEN {<<Key("server_groups")>>} ELSE {})
         \cup UNION {GroupViolations(data.server_groups[i]) :
                        i \in 1..Len(data.server_groups)}

\* SERVER_FILE_SCHEMA: the paths at which the document violates it
SchemaViolations(data) ==
    IF data.kind # "object" THEN {<<>>}
    ELSE (IF data.servers_key = "absent" THEN {<<>>} ELSE {})
         \cup (IF data.vault_file = None THEN {<<Key("vault_file")>>} ELSE {})
         \cup (IF data.groups_key = "null" THEN {<<Key("server_groups")>>} ELSE {})
         \cup (IF data.default = None THEN {<<Key("default")>>} ELSE {})
         \cup UNION {GroupViolations(data.server_groups[i]) :
                        i \in 1..Len(data.server_groups)}

\* A JSON schema supplied by the caller: None, the empty schema "{}", a
\* schema that is not a valid JSON schema ("broken"), or the schema
\* {"required": ["sub"]} ("required_sub").
SchemaTruthy(schema) == schema # None /\ schema # "{}"

\* jsonschema.validate(instance, schema): the schema is checked first
JsonValidate(instance, schema) ==
    IF schema = "broken" THEN "SchemaError"
    ELSE IF schema = "required_sub" /\ Len(instance) < 2 THEN "ValidationError"
    ELSE "ok"

\* a faulty variant: 'default' is set to None also when the file has it
EstablishDefaultsAlways(data) ==
    [data EXCEPT
        !.groups_key = "object",
        !.server_groups = IF data.groups_key = "absent" THEN <<>> ELSE @,
        !.default = None,
        !.vault_file = IF @ = Absent THEN None ELSE @]

\* Establish defaults for optional top-level elements
EstablishDefaults(data) ==
    [data EXCEPT
        !.groups_key = "object",
        !.server_groups = IF data.groups_key = "absent" THEN <<>> ELSE @,
        !.default = IF @ = Absent THEN None ELSE @,
        !.vault_file = IF @ = Absent THEN None ELSE @]

\* Schema validation of user-defined portion of server items
RECURSIVE CheckServersUserDefined(_, _, _, _)
CheckServersUserDefined(h, servers, schema, i) ==
    IF i > Len(servers) THEN NoExc
    ELSE LET it == servers[i]
             v  == JsonValidate(Deref(h, it.user_defined), schema)
         IN  IF it.user_defined = Nil
             THEN Exc("ServerFileUserDefinedFormatError", "missing", it.nick, "")
             ELSE IF v = "SchemaError"
             THEN Exc("ServerFileUserDefinedSchemaError", "schema", "", "")
             ELSE IF v = "ValidationError"
             THEN Exc("ServerFileUserDefinedFormatError", "format", it.nick, "")
             ELSE CheckServersUserDefined(h, servers, schema, i + 1)

\* Schema validation of user-defined portion of group items
RECURSIVE CheckGroupsUserDefined(_, _, _)
CheckGroupsUserDefined(groups, schema, i) ==
    IF i > Len(groups) THEN NoExc
    ELSE LET it == groups[i]
             v  == JsonValidate(it.user_defined, schema)
         IN  IF it.user_defined = <<>>
             THEN Exc("ServerFileGroupUserDefinedFormatError", "missing", "", it.nick)
             ELSE IF v = "SchemaError"
             THEN Exc("ServerFileGroupUserDefinedSchemaError", "schema", "", "")
             ELSE IF v = "ValidationError"
             THEN Exc("ServerFileGroupUserDefinedFormatError", "format", "", it.nick)
             ELSE CheckGroupsUserDefined(groups, schema, i + 1)

\* a faulty variant: the default check raises an exception of its own class
CheckDefaultSemantic(default_nick, all_nicks) ==
    IF Truthy(default_nick) /\ ~InList(default_nick, all_nicks)
    THEN Exc("ServerFileSemanticError", "default_not_found", default_nick, "")
    ELSE NoExc

\* the default check of "Check dependencies in the file"
CheckDefault(default_nick, all_nicks) ==
    IF Truthy(default_nick) /\ ~InList(default_nick, all_nicks)
    THEN Exc("ServerFileFormatError", "default_not_found", default_nick, "")
    ELSE NoExc

\* a faulty variant: only the first member of each group is looked up
RECURSIVE CheckFirstMembers(_, _, _, _)
CheckFirstMembers(groups, all_nicks, g, m) ==
    IF g > Len(groups) THEN NoExc
    ELSE IF m > Len(groups[g].members) \/ m > 1
    THEN CheckFirstMembers(groups, all_nicks, g + 1, 1)
    ELSE IF ~InList(groups[g].members[m], all_nicks)
    THEN Exc("ServerFileFormatError", "member_not_found",
             groups[g].members[m], groups[g].nick)
    ELSE CheckFirstMembers(groups, all_nicks, g, m + 1)

\* a faulty variant: the members are not looked up at all
CheckNoMembers(groups, all_nicks, g, m) == NoExc

\* the loops over the groups and their members: the first member not found
RECURSIVE CheckMembers(_, _, _, _)
CheckMembers(groups, all_nicks, g, m) ==
    IF g > Len(groups) THEN NoExc
    ELSE IF m > Len(groups[g].members) THEN CheckMembers(groups, all_nicks, g + 1, 1)
    ELSE IF ~InList(groups[g].members[m], all_nicks)
    THEN Exc("ServerFileFormatError", "member_not_found",
             groups[g].members[m], groups[g].nick)
    ELSE CheckMembers(groups, all_nicks, g, m + 1)

\* a faulty variant: the members are checked before the default
CheckDependenciesMembersFirst(data) ==
    LET all_nicks == Keys(data.servers) \o Keys(data.server_groups)
        m == CheckMembers(data.server_groups, all_nicks, 1, 1)
    IN  IF m # NoExc THEN m
        ELSE CheckDefault(data.default, all_nicks)

\* Check dependencies in the file
CheckDependencies(data) ==
    LET server_nicks == Keys(data.servers)
        group_nicks  == Keys(data.server_groups)
        all_nicks    == server_nicks \o group_nicks
        d == CheckDefault(data.default, all_nicks)
    IN  IF d # NoExc THEN d
        ELSE CheckMembers(data.server_groups, all_nicks, 1, 1)

EmptyData ==
    [kind |-> "object", servers_key |-> "object", servers |-> <<>>,
     groups_key |-> "object", server_groups |-> <<>>,
     default |-> None, vault_file |-> None]

Failed(h, exc) == [exc |-> exc, heap |-> h, data |-> EmptyData]

\* _load_server_file: the possible outcomes [exc, heap, data].  The schema
\* validator reports one of the violations.
load_server_file(h, file, user_defined_schema, group_user_defined_schema) ==
    IF ~file.readable
    THEN {Failed(h, Exc("ServerFileOpenError", "open", "", ""))}
    ELSE IF ~file.yaml_ok
    THEN {Failed(h, Exc("ServerFileFormatError", "yaml", "", ""))}
    ELSE
    LET y == yaml_safe_load(h, file.doc)
        viol == SchemaViolations(y.data)
        data == EstablishDefaults(y.data)
        e1 == IF SchemaTruthy(user_defined_schema)
              THEN CheckServersUserDefined(y.heap, data.servers,
                                           user_defined_schema, 1)
              ELSE NoExc
        e2 == IF SchemaTruthy(group_user_defined_schema)
              THEN CheckGroupsUserDefined(data.server_groups,
                                          group_user_defined_schema, 1)
              ELSE NoExc
        e3 == CheckDependencies(data)
    IN  IF viol # {}
        THEN {Failed(h, Exc("ServerFileFormatError", "schema",
                            ElemStr(path), "")) : path \in viol}
        ELSE IF e1 # NoExc THEN {Failed(h, e1)}
        ELSE IF e2 # NoExc THEN {Failed(h, e2)}
        ELSE IF e3 # NoExc THEN {Failed(h, e3)}
        ELSE {[exc |-> NoExc, heap |-> y.heap, data |-> data]}

----------------------------------------------------------------------------
(* Paths.  The server file is /dir/servers.yml. *)

ServerFilePath == "/dir/servers.yml"
VaultPath == "/dir/vault.yml"

IsAbs(p) == p \in {"/dir/vault.yml", "/dir/other.yml", "/dir/servers.yml"}
Dirname(p) == "/dir"
PathJoin(d, p) ==
    IF IsAbs(p) THEN p
    ELSE IF p = "vault.yml" THEN "/dir/vault.yml"
    ELSE IF p = "other.yml" THEN "/dir/other.yml"
    ELSE "/dir/"

----------------------------------------------------------------------------
(* The vault file.                                                         *)
(*   env.vaultfile = [exists, encrypted, password, yaml_ok, schema_ok,     *)
(*                    secrets: list of [nick, value]]                      *)
(* is the file at VaultPath; no other vault file exists.                   *)

\* a faulty variant: prompts also when prompting is disabled
get_password_prompting(kr, use_keyring, use_prompting, prompt) ==
    IF use_keyring /\ kr # None THEN kr ELSE prompt

\* easy_vault.get_password: from the keyring, else by prompting
get_password(kr, use_keyring, use_prompting, prompt) ==
    IF use_keyring /\ kr # None THEN kr
    ELSE IF use_prompting THEN prompt
    ELSE None

\* easy_vault.set_password: stores the password in the keyring
set_password(kr, password, use_keyring) ==
    IF use_keyring THEN password ELSE kr

\* a faulty variant: a password is asked for whenever none is given
NeedsPasswordAlways(password, encrypted) == password = None

\* "if password is None and encrypted"
NeedsPassword(password, encrypted) == password = None /\ encrypted

\* EasyVault(filepath, password).get_yaml(): "ok" or the exception raised.
\* An encrypted file is decrypted with the password; without a password, or
\* with another one than the file was encrypted with, that fails.
get_yaml(vf, password) ==
    IF vf.encrypted /\ password # vf.password THEN "EasyVaultDecryptError"
    ELSE IF ~vf.yaml_ok THEN "EasyVaultYamlError"
    ELSE "ok"

\* the secrets items become objects
RECURSIVE YamlSecrets(_, _, _)
YamlSecrets(h, items, i) ==
    IF i > Len(items) THEN [heap |-> h, secrets |-> <<>>]
    ELSE LET rest == YamlSecrets(AllocChain(h, items[i].value), items, i + 1)
         IN  [heap |-> rest.heap,
              secrets |-> <<[nick |-> items[i].nick, ref |-> NewId(h)]>>
                          \o rest.secrets]

\* Schema validation of server items
RECURSIVE CheckVaultServers(_, _, _, _)
CheckVaultServers(h, secrets, schema, i) ==
    IF i > Len(secrets) THEN NoExc
    ELSE LET v == JsonValidate(Deref(h, secrets[i].ref), schema)
         IN  IF v = "SchemaError"
             THEN Exc("VaultFileServerSchemaError", "schema", "", "")
             ELSE IF v = "ValidationError"
             THEN Exc("VaultFileServerFormatError", "format", secrets[i].nick, "")
             ELSE CheckVaultServers(h, secrets, schema, i + 1)

VaultFailed(h, kr, exc) ==
    [exc |-> exc, heap |-> h, keyring |-> kr, secrets |-> <<>>,
     encrypted |-> FALSE, acquired |-> FALSE, decrypts |-> 0]

\* _load_vault_file: [exc, heap, keyring, secrets, encrypted, acquired,
\* decrypts]; acquired tells whether easy_vault.get_password was called,
\* decrypts how often get_yaml was called
load_vault_file(h, kr, vf, filepath, password, use_keyring, use_prompting, prompt, server_schema) ==
    IF filepath # VaultPath \/ ~vf.exists
    THEN VaultFailed(h, kr, Exc("VaultFileOpenError", "open", "", ""))
    ELSE
    LET encrypted == vf.encrypted
        acquire == NeedsPassword(password, encrypted)
        pw == IF acquire
              THEN get_password(kr, use_keyring, use_prompting, prompt)
              ELSE password
        kr1 == IF pw # None THEN set_password(kr, pw, use_keyring) ELSE kr
        ys == YamlSecrets(h, vf.secrets, 1)
        e == IF SchemaTruthy(server_schema)
             THEN CheckVaultServers(ys.heap, ys.secrets, server_schema, 1)
             ELSE NoExc
        vault_obj == get_yaml(vf, pw)
        fail(k, exc) ==
            [VaultFailed(h, k, exc) EXCEPT !.acquired = acquire, !.decrypts = 1]
    IN  IF vault_obj = "EasyVaultDecryptError"
        THEN fail(kr, Exc("VaultFileDecryptError", "decrypt", "", ""))
        ELSE IF vault_obj = "EasyVaultYamlError"
        THEN fail(kr, Exc("VaultFileFormatError", "yaml", "", ""))
        ELSE IF ~vf.schema_ok
        THEN fail(kr1, Exc("VaultFileFormatError", "schema", "", ""))
        ELSE IF e # NoExc THEN fail(kr1, e)
        ELSE [exc |-> NoExc, heap |-> ys.heap, keyring |-> kr1,
              secrets |-> ys.secrets, encrypted |-> encrypted,
              acquired |-> acquire, decrypts |-> 1]

\* VaultFile.__init__
NoVault == [filepath |-> None, secrets |-> <<>>, encrypted |-> FALSE]

VaultFile_init(lv, filepath) ==
    [filepath |-> filepath, secrets |-> lv.secrets, encrypted |-> lv.encrypted]

----------------------------------------------------------------------------
(* ServerFile.__init__ *)

NewServerFile ==
    [state |-> "new", exc |-> NoExc, data |-> EmptyData, vault_file |-> None,
     has_vault |-> FALSE, vault |-> NoVault, vault_read |-> FALSE,
     acquired |-> FALSE, decrypts |-> 0]

\* the path of the vault file: relative to the directory of the server file
ResolveVaultFile(filepath, vault_file) ==
    IF ~IsAbs(vault_file) THEN PathJoin(Dirname(filepath), vault_file)
    ELSE vault_file

\* the vault file as __init__ loads it
LoadVault(h, kr, e, vault_file) ==
    load_vault_file(h, kr, e.vaultfile,
                    ResolveVaultFile(e.args.filepath, vault_file),
                    e.args.password, e.args.use_keyring, e.args.use_prompting,
                    e.prompt, e.args.vault_server_schema)

\* a faulty variant: the vault file the document names is loaded although
\* the server file did not load
LoadFailedAfterVault(ld, kr, e) ==
    IF e.file.readable /\ e.file.yaml_ok /\ Truthy(e.file.doc.vault_file)
           /\ e.file.doc.vault_file # Absent
    THEN LET lv == LoadVault(ld.heap, kr, e, e.file.doc.vault_file)
         IN  [sf |-> [NewServerFile EXCEPT !.state = "failed", !.exc = ld.exc,
                                            !.vault_read = TRUE,
                                            !.acquired = lv.acquired,
                                            !.decrypts = lv.decrypts],
              heap |-> ld.heap, keyring |-> lv.keyring]
    ELSE [sf |-> [NewServerFile EXCEPT !.state = "failed", !.exc = ld.exc],
          heap |-> ld.heap, keyring |-> kr]

\* _load_server_file raised: the exception leaves __init__, no ServerFile
\* exists and the vault file was not looked at
LoadFailed(ld, kr, e) ==
    [sf |-> [NewServerFile EXCEPT !.state = "failed", !.exc = ld.exc],
     heap |-> ld.heap, keyring |-> kr]

\* a faulty variant: the exception of VaultFile() is swallowed and the
\* ServerFile is left without a vault
VaultInitSwallowed(ld, lv, path) ==
    [sf |-> [state |-> "open", exc |-> NoExc, data |-> ld.data,
             vault_file |-> path, has_vault |-> FALSE, vault |-> NoVault,
             vault_read |-> TRUE, acquired |-> lv.acquired,
             decrypts |-> lv.decrypts],
     heap |-> lv.heap, keyring |-> lv.keyring]

\* VaultFile() raised: the exception leaves __init__, no ServerFile exists
VaultInitFailed(ld, lv, path) ==
    [sf |-> [NewServerFile EXCEPT !.state = "failed", !.exc = lv.exc,
                                   !.vault_read = TRUE,
                                   !.acquired = lv.acquired,
                                   !.decrypts = lv.decrypts],
     heap |-> lv.heap, keyring |-> lv.keyring]

\* the state after __init__ for one outcome ld of _load_server_file
ServerFile_init(ld, kr, e) ==
    IF ld.exc # NoExc
    THEN LoadFailed(ld, kr, e)
    ELSE IF Truthy(ld.data.vault_file)
    THEN LET path == ResolveVaultFile(e.args.filepath, ld.data.vault_file)
             lv == LoadVault(ld.heap, kr, e, ld.data.vault_file)
         IN  IF lv.exc # NoExc
             THEN VaultInitFailed(ld, lv, path)
             ELSE [sf |-> [state |-> "open", exc |-> NoExc, data |-> ld.data,
                           vault_file |-> path, has_vault |-> TRUE,
                           vault |-> VaultFile_init(lv, path),
                           vault_read |-> TRUE, acquired |-> lv.acquired,
                           decrypts |-> lv.decrypts],
                   heap |-> lv.heap, keyring |-> lv.keyring]
    ELSE [sf |-> [state |-> "open", exc |-> NoExc, data |-> ld.data,
                  vault_file |-> ld.data.vault_file, has_vault |-> FALSE,
                  vault |-> NoVault, vault_read |-> FALSE, acquired |-> FALSE,
                  decrypts |-> 0],
          heap |-> ld.heap, keyring |-> kr]

----------------------------------------------------------------------------
(* Server *)

\* Server.__init__: description, contact_name, access_via and user_defined
\* are taken from server_dict as they are (user_defined is the same object)
Server_init(nickname, server_dict, secrets_dict) ==
    [nickname |-> nickname,
     description |-> server_dict.description,
     contact_name |-> IF server_dict.contact_name = Absent THEN None
                      ELSE server_dict.contact_name,
     access_via |-> IF server_dict.access_via = Absent THEN None
                    ELSE server_dict.access_via,
     user_defined |-> server_dict.user_defined,
     secrets |-> secrets_dict]

\* the nicknames of a list of servers
Nicknames(servers) == [i \in 1..Len(servers) |-> servers[i].nickname]

NoServer ==
    [nickname |-> "", description |-> "", contact_name |-> None,
     access_via |-> None, user_defined |-> Nil, secrets |-> Nil]

\* repr() of a string or None
ReprStr(x) == IF x = None THEN "None" ELSE "'" \o x \o "'"

\* repr() of a dict, by its content
RECURSIVE ReprContent(_)
ReprContent(c) ==
    IF Len(c) = 1 THEN "{" \o StrInt(c[1]) \o "}"
    ELSE "{" \o StrInt(c[1]) \o ": " \o ReprContent(Tail(c)) \o "}"

\* repr() of the dict at ref, or of None
ReprDict(h, ref) == IF ref = Nil THEN "None" ELSE ReprContent(Deref(h, ref))

\* the attributes but the secrets, as __repr__ formats them
ReprAttributes(h, s) ==
    "Server(nickname=" \o ReprStr(s.nickname)
    \o ", description=" \o ReprStr(s.description)
    \o ", contact_name=" \o ReprStr(s.contact_name)
    \o ", access_via=" \o ReprStr(s.access_via)
    \o ", user_defined=" \o ReprDict(h, s.user_defined)

\* a faulty variant: the secrets are formatted as the user-defined
\* portion is
Server_repr_revealing(h, s) ==
    ReprAttributes(h, s) \o ", secrets=" \o ReprDict(h, s.secrets) \o ")"

\* Server.__repr__: "{...}" stands for secrets that are not None and not
\* empty
Server_repr(h, s) ==
    LET secrets == IF s.secrets # Nil /\ Len(Deref(h, s.secrets)) > 0
                   THEN "{...}" ELSE "None"
    IN  ReprAttributes(h, s) \o ", secrets=" \o secrets \o ")"

----------------------------------------------------------------------------
(* VaultFile.get_secrets: [exc, heap, ref] *)

\* a faulty variant: the item is taken out of the stored secrets
get_secrets_consuming(h, vault, nickname) ==
    IF ~HasKey(vault.secrets, nickname)
    THEN [exc |-> Exc("KeyError", "vault_server_not_found", nickname, ""),
          heap |-> h, ref |-> Nil]
    ELSE LET stored == Lookup(vault.secrets, nickname).ref
         IN  [exc |-> NoExc,
              heap |-> [DeepCopyHeap(h, stored) EXCEPT ![stored].v = 0],
              ref |-> NewId(h)]

get_secrets(h, vault, nickname) ==
    IF ~HasKey(vault.secrets, nickname)
    THEN [exc |-> Exc("KeyError", "vault_server_not_found", nickname, ""),
          heap |-> h, ref |-> Nil]
    ELSE [exc |-> NoExc,
          heap |-> DeepCopyHeap(h, Lookup(vault.secrets, nickname).ref),
          ref |-> NewId(h)]

----------------------------------------------------------------------------
(* ServerFile queries: [exc, heap, servers] *)

\* a faulty variant: the KeyError of get_secrets is not caught
get_server_raising(h, s, nickname) ==
    IF ~HasKey(s.data.servers, nickname)
    THEN [exc |-> Exc("KeyError", "server_not_found", nickname, ""),
          heap |-> h, servers |-> <<>>]
    ELSE LET server_dict == Lookup(s.data.servers, nickname)
             gs == get_secrets(h, s.vault, nickname)
         IN  IF s.has_vault /\ gs.exc # NoExc
             THEN [exc |-> gs.exc, heap |-> h, servers |-> <<>>]
             ELSE [exc |-> NoExc,
                   heap |-> IF s.has_vault THEN gs.heap ELSE h,
                   servers |-> <<Server_init(nickname, server_dict,
                                             IF s.has_vault THEN gs.ref ELSE Nil)>>]

\* a faulty variant: get_server with the message of list_servers
get_server_or_group(h, s, nickname) ==
    IF ~HasKey(s.data.servers, nickname)
    THEN [exc |-> Exc("KeyError", "server_or_group_not_found", nickname, ""),
          heap |-> h, servers |-> <<>>]
    ELSE LET server_dict == Lookup(s.data.servers, nickname)
             gs == get_secrets(h, s.vault, nickname)
             found == s.has_vault /\ gs.exc = NoExc
             secrets_dict == IF found THEN gs.ref ELSE Nil
         IN  [exc |-> NoExc,
              heap |-> IF found THEN gs.heap ELSE h,
              servers |-> <<Server_init(nickname, server_dict, secrets_dict)>>]

get_server(h, s, nickname) ==
    IF ~HasKey(s.data.servers, nickname)
    THEN [exc |-> Exc("KeyError", "server_not_found", nickname, ""),
          heap |-> h, servers |-> <<>>]
    ELSE LET server_dict == Lookup(s.data.servers, nickname)
             gs == get_secrets(h, s.vault, nickname)
             found == s.has_vault /\ gs.exc = NoExc
             secrets_dict == IF found THEN gs.ref ELSE Nil
         IN  [exc |-> NoExc,
              heap |-> IF found THEN gs.heap ELSE h,
              servers |-> <<Server_init(nickname, server_dict, secrets_dict)>>]

\* a faulty variant: the inner loop without the test for the nickname
AppendAll(sd_list, sd_nick_list, member_sds, j) ==
    [sd_list |-> sd_list \o member_sds,
     sd_nick_list |-> sd_nick_list \o Nicknames(member_sds)]

\* a faulty variant: a server found again is moved to the end of the list
RECURSIVE AppendKeepLast(_, _, _, _)
AppendKeepLast(sd_list, sd_nick_list, member_sds, j) ==
    IF j > Len(member_sds) THEN [sd_list |-> sd_list, sd_nick_list |-> sd_nick_list]
    ELSE LET sd == member_sds[j]
             others == SelectSeq(sd_list, LAMBDA x : x.nickname # sd.nickname)
         IN  AppendKeepLast(Append(others, sd), Nicknames(Append(others, sd)),
                            member_sds, j + 1)

\* the inner loop of list_servers: append the servers not yet in the list
RECURSIVE AppendNew(_, _, _, _)
AppendNew(sd_list, sd_nick_list, member_sds, j) ==
    IF j > Len(member_sds) THEN [sd_list |-> sd_list, sd_nick_list |-> sd_nick_list]
    ELSE LET sd == member_sds[j]
         IN  IF ~InList(sd.nickname, sd_nick_list)
             THEN AppendNew(Append(sd_list, sd), Append(sd_nick_list, sd.nickname),
                            member_sds, j + 1)
             ELSE AppendNew(sd_list, sd_nick_list, member_sds, j + 1)

\* list_servers at recursion depth d; the loop over the members from index i
RECURSIVE list_servers_at(_, _, _, _)
RECURSIVE MembersLoop(_, _, _, _, _, _, _)

\* a faulty variant: the recursion is cut off and yields no servers
list_servers_cut(h, s, nickname, d) ==
    IF d > RecursionLimit
    THEN [exc |-> NoExc, heap |-> h, servers |-> <<>>]
    ELSE IF HasKey(s.data.servers, nickname)
    THEN get_server(h, s, nickname)
    ELSE IF HasKey(s.data.server_groups, nickname)
    THEN MembersLoop(h, s, Lookup(s.data.server_groups, nickname).members, 1,
                     <<>>, <<>>, d)
    ELSE [exc |-> Exc("KeyError", "server_or_group_not_found", nickname, ""),
          heap |-> h, servers |-> <<>>]

list_servers_at(h, s, nickname, d) ==
    IF d > RecursionLimit
    THEN [exc |-> Exc("RecursionError", "recursion", nickname, ""),
          heap |-> h, servers |-> <<>>]
    ELSE IF HasKey(s.data.servers, nickname)
    THEN get_server(h, s, nickname)
    ELSE IF HasKey(s.data.server_groups, nickname)
    THEN MembersLoop(h, s, Lookup(s.data.server_groups, nickname).members, 1,
                     <<>>, <<>>, d)
    ELSE [exc |-> Exc("KeyError", "server_or_group_not_found", nickname, ""),
          heap |-> h, servers |-> <<>>]

MembersLoop(h, s, members, i, sd_list, sd_nick_list, d) ==
    IF i > Len(members)
    THEN [exc |-> NoExc, heap |-> h, servers |-> sd_list]
    ELSE LET r == list_servers_at(h, s, members[i], d + 1)
             a == AppendNew(sd_list, sd_nick_list, r.servers, 1)
         IN  IF r.exc # NoExc THEN r
             ELSE MembersLoop(r.heap, s, members, i + 1, a.sd_list,
                              a.sd_nick_list, d)

list_servers(h, s, nickname) == list_servers_at(h, s, nickname, 1)

\* a faulty variant: the default is looked up as a server
list_default_as_server(h, s) ==
    IF s.data.default = None
    THEN [exc |-> NoExc, heap |-> h, servers |-> <<>>]
    ELSE get_server(h, s, s.data.default)

list_default_servers(h, s) ==
    IF s.data.default = None
    THEN [exc |-> NoExc, heap |-> h, servers |-> <<>>]
    ELSE list_servers(h, s, s.data.default)

\* a faulty variant: the servers in the reverse order
RECURSIVE list_all_reversed(_, _, _)
list_all_reversed(h, s, i) ==
    IF i > Len(s.data.servers)
    THEN [exc |-> NoExc, heap |-> h, servers |-> <<>>]
    ELSE LET g == get_server(h, s, s.data.servers[i].nick)
             rest == list_all_reversed(g.heap, s, i + 1)
         IN  [exc |-> NoExc, heap |-> rest.heap,
              servers |-> rest.servers \o g.servers]

\* [self.get_server(nickname) for nickname in self._servers]
RECURSIVE list_all_from(_, _, _)
list_all_from(h, s, i) ==
    IF i > Len(s.data.servers)
    THEN [exc |-> NoExc, heap |-> h, servers |-> <<>>]
    ELSE LET g == get_server(h, s, s.data.servers[i].nick)
             rest == list_all_from(g.heap, s, i + 1)
         IN  [exc |-> NoExc, heap |-> rest.heap,
              servers |-> g.servers \o rest.servers]

list_all_servers(h, s) == list_all_from(h, s, 1)

\* a Python bool as a value that can stand beside None
PyBool(b) == IF b THEN "True" ELSE "False"

\* a faulty variant: False when there is no vault file
is_vault_file_encrypted_bool(s) ==
    IF ~s.has_vault THEN PyBool(FALSE) ELSE PyBool(s.vault.encrypted)

\* ServerFile.is_vault_file_encrypted, VaultFile.is_encrypted
is_vault_file_encrypted(s) ==
    IF ~s.has_vault THEN None ELSE PyBool(s.vault.encrypted)

----------------------------------------------------------------------------
(* The actions *)

NoResult ==
    [op |-> "", arg |-> "", exc |-> NoExc, servers |-> <<>>, ref |-> Nil,
     value |-> None]

\* the objects a call hands to the caller
Roots(servers) ==
    ({servers[i].user_defined : i \in 1..Len(servers)}
     \cup {servers[i].secrets : i \in 1..Len(servers)}) \ {Nil}

\* ServerFile(filepath, password, use_keyring, use_prompting, ...)
Open ==
    /\ sf.state = "new"
    /\ \E ld \in load_server_file(heap, env.file, env.args.user_defined_schema,
                                  env.args.group_user_defined_schema) :
         LET r == ServerFile_init(ld, keyring, env)
         IN  /\ sf' = r.sf
             /\ heap' = r.heap
             /\ keyring' = r.keyring
             /\ result' = [NoResult EXCEPT !.op = "open", !.exc = r.sf.exc]
    /\ UNCHANGED <<env, held, nmut, calls>>

\* a query of the open ServerFile that returns r = [exc, heap, servers]
Query(op, arg, r) ==
    /\ sf.state = "open"
    /\ Len(r.heap) <= MaxHeap
    /\ heap' = r.heap
    /\ result' = [op |-> op, arg |-> arg, exc |-> r.exc,
                  servers |-> IF r.exc = NoExc THEN r.servers ELSE <<>>,
                  ref |-> Nil, value |-> None]
    /\ held' = held \cup (IF r.exc = NoExc THEN Roots(r.servers) ELSE {})
    /\ UNCHANGED <<env, keyring, sf, nmut, calls>>

GetServer(n) == Query("get_server", n, get_server(heap, sf, n))

ListServers(n) == Query("list_servers", n, list_servers(heap, sf, n))

ListDefaultServers ==
    Query("list_default_servers", "", list_default_servers(heap, sf))

ListAllServers == Query("list_all_servers", "", list_all_servers(heap, sf))

\* VaultFile.get_secrets on the vault of the ServerFile
GetSecrets(n) ==
    /\ sf.state = "open"
    /\ sf.has_vault
    /\ LET r == get_secrets(heap, sf.vault, n)
       IN  /\ Len(r.heap) <= MaxHeap
           /\ heap' = r.heap
           /\ result' = [op |-> "get_secrets", arg |-> n, exc |-> r.exc,
                         servers |-> <<>>, ref |-> r.ref, value |-> None]
           /\ held' = held \cup ({r.ref} \ {Nil})
    /\ UNCHANGED <<env, keyring, sf, nmut, calls>>

IsVaultFileEncrypted ==
    /\ sf.state = "open"
    /\ result' = [NoResult EXCEPT !.op = "is_vault_file_encrypted",
                                  !.value = is_vault_file_encrypted(sf)]
    /\ UNCHANGED <<env, keyring, sf, heap, held, nmut, calls>>

\* repr() of the i-th Server the last query returned
Repr(i) ==
    /\ result.op \in {"get_server", "list_servers", "list_default_servers",
                      "list_all_servers"}
    /\ i \in 1..Len(result.servers)
    /\ result' = [op |-> "repr", arg |-> result.servers[i].nickname,
                  exc |-> NoExc, servers |-> <<>>, ref |-> Nil,
                  value |-> Server_repr(heap, result.servers[i])]
    /\ UNCHANGED <<env, keyring, sf, heap, held, nmut, calls>>

\* the vault file is encrypted or decrypted on disk, with its password,
\* while the ServerFile is open
VaultFileRewritten ==
    /\ sf.state = "open"
    /\ env.vaultfile.exists
    /\ env' = [env EXCEPT !.vaultfile.encrypted = ~@]
    /\ UNCHANGED <<keyring, sf, heap, result, held, nmut, calls>>

\* the caller changes a dict it was handed, at any level
Mutate(id) ==
    /\ nmut < MaxMut
    /\ \E root \in held : id \in Reach(heap, root)
    /\ heap[id].v # MutVal
    /\ heap' = [heap EXCEPT ![id].v = MutVal]
    /\ nmut' = nmut + 1
    /\ UNCHANGED <<env, keyring, sf, result, held, calls>>

----------------------------------------------------------------------------
(* Threads that call the open ServerFile.  A call proceeds in steps, one   *)
(* per access to the data of the ServerFile; the steps of the threads      *)
(* interleave.                                                             *)

Threads == {"t1", "t2"}

IdleCall ==
    [pc |-> "idle", op |-> "", arg |-> "", stack |-> <<>>, exc |-> NoExc,
     servers |-> <<>>, ref |-> Nil, value |-> None, names |-> <<>>]

\* the frame of a list_servers call that loops over members, or of the
\* comprehension of list_all_servers
Frame(kind, members) ==
    [kind |-> kind, members |-> members, i |-> 1, sd_list |-> <<>>,
     sd_nick_list |-> <<>>]

Done(c, exc, servers) ==
    [c EXCEPT !.pc = "done", !.stack = <<>>, !.exc = exc, !.servers = servers]

\* one step of the loops of list_servers and list_all_servers: the next
\* member is a server (get_server), a group (a nested call), or unknown
\* (KeyError); at the end of the members the call returns to its caller
FrameStep(h, s, c) ==
    LET d == Len(c.stack)
        top == c.stack[d]
        m == top.members[top.i]
        g == get_server(h, s, m)
        below == SubSeq(c.stack, 1, d - 1)
    IN  IF top.i > Len(top.members)
        THEN IF d = 1
             THEN [heap |-> h, call |-> Done(c, NoExc, top.sd_list)]
             ELSE LET a == AppendNew(c.stack[d - 1].sd_list,
                                     c.stack[d - 1].sd_nick_list,
                                     top.sd_list, 1)
                  IN  [heap |-> h,
                       call |-> [c EXCEPT !.stack =
                                   [below EXCEPT ![d - 1].sd_list = a.sd_list,
                                                 ![d - 1].sd_nick_list = a.sd_nick_list,
                                                 ![d - 1].i = @ + 1]]]
        ELSE IF top.kind = "all"
        THEN [heap |-> g.heap,
              call |-> [c EXCEPT !.stack[d].sd_list = @ \o g.servers,
                                 !.stack[d].i = @ + 1]]
        ELSE IF d > RecursionLimit
        THEN [heap |-> h,
              call |-> Done(c, Exc("RecursionError", "recursion", m, ""), <<>>)]
        ELSE IF HasKey(s.data.servers, m)
        THEN LET a == AppendNew(top.sd_list, top.sd_nick_list, g.servers, 1)
             IN  [heap |-> g.heap,
                  call |-> [c EXCEPT !.stack[d].sd_list = a.sd_list,
                                     !.stack[d].sd_nick_list = a.sd_nick_list,
                                     !.stack[d].i = @ + 1]]
        ELSE IF HasKey(s.data.server_groups, m)
        THEN [heap |-> h,
              call |-> [c EXCEPT !.stack =
                          Append(@, Frame("members",
                                          Lookup(s.data.server_groups, m).members))]]
        ELSE [heap |-> h,
              call |-> Done(c, Exc("KeyError", "server_or_group_not_found", m, ""),
                            <<>>)]

\* one step of the call c of a thread: [heap, call]
StepCall(h, s, c) ==
    IF c.op = "get_server"
    THEN LET r == get_server(h, s, c.arg)
         IN  [heap |-> r.heap, call |-> Done(c, r.exc, r.servers)]
    ELSE IF c.op = "get_secrets"
    THEN LET r == get_secrets(h, s.vault, c.arg)
         IN  [heap |-> r.heap,
              call |-> [Done(c, r.exc, <<>>) EXCEPT !.ref = r.ref]]
    ELSE IF c.op = "nicknames"
    THEN [heap |-> h,
          call |-> [Done(c, NoExc, <<>>) EXCEPT !.names = Keys(s.vault.secrets)]]
    ELSE IF c.op = "is_vault_file_encrypted"
    THEN [heap |-> h,
          call |-> [Done(c, NoExc, <<>>) EXCEPT !.value = is_vault_file_encrypted(s)]]
    ELSE IF c.stack # <<>>
    THEN FrameStep(h, s, c)
    ELSE IF c.op = "list_all_servers"
    THEN [heap |-> h,
          call |-> [c EXCEPT !.stack = <<Frame("all", Keys(s.data.servers))>>]]
    ELSE IF c.op = "list_default_servers" /\ s.data.default = None
    THEN [heap |-> h, call |-> Done(c, NoExc, <<>>)]
    ELSE [heap |-> h,
          call |-> [c EXCEPT !.stack =
                      <<Frame("members",
                              <<IF c.op = "list_default_servers"
                                THEN s.data.default ELSE c.arg>>)>>]]

\* the thread t calls op(arg) of the ServerFile, or of its VaultFile
Begin(t, op, arg) ==
    /\ sf.state = "open"
    /\ calls[t].pc = "idle"
    /\ op \in {"get_secrets", "nicknames"} => sf.has_vault
    /\ calls' = [calls EXCEPT ![t] = [IdleCall EXCEPT !.pc = "running",
                                                      !.op = op, !.arg = arg]]
    /\ UNCHANGED <<env, keyring, sf, heap, result, held, nmut>>

\* the call of the thread t takes its next step
Step(t) ==
    /\ sf.state = "open"
    /\ calls[t].pc = "running"
    /\ LET r == StepCall(heap, sf, calls[t])
       IN  /\ heap' = r.heap
           /\ calls' = [calls EXCEPT ![t] = r.call]
    /\ UNCHANGED <<env, keyring, sf, result, held, nmut>>

----------------------------------------------------------------------------
(* The inputs *)

SeqsUpTo(S, n) == UNION {[1..k -> S] : k \in 0..n}

ServerItem(n, ud) ==
    [nick |-> n,
     description |-> IF n = "srv1" THEN "server1" ELSE "server2",
     contact_name |-> Absent, access_via |-> Absent, user_defined |-> ud]

GroupItem(n, members) ==
    [nick |-> n, description |-> "group", members_key |-> "array",
     members |-> members, user_defined |-> <<>>]

Doc(servers, groups_key, groups, default, vault_file) ==
    [kind |-> "object", servers_key |-> "object", servers |-> servers,
     groups_key |-> groups_key, server_groups |-> groups,
     default |-> default, vault_file |-> vault_file]

GoodFile(doc) == [readable |-> TRUE, yaml_ok |-> TRUE, doc |-> doc]

NoVaultFile ==
    [exists |-> FALSE, encrypted |-> FALSE, password |-> "", yaml_ok |-> TRUE,
     schema_ok |-> TRUE, secrets |-> <<>>]

DefaultArgs ==
    [filepath |-> ServerFilePath, password |-> None, use_keyring |-> TRUE,
     use_prompting |-> TRUE, user_defined_schema |-> None,
     group_user_defined_schema |-> None, vault_server_schema |-> None]

Env(file, vaultfile, args, prompt) ==
    [file |-> file, vaultfile |-> vaultfile, args |-> args, prompt |-> prompt]

\* the nicknames the callers ask for
QueryNicks == {"srv1", "srv2", "grp1", "grp2", "grp3", "nope", ""}

\* the ways to cut the list of members e into the members of two groups
Split2(e) == {<<SubSeq(e, 1, c), SubSeq(e, c + 1, Len(e))>> : c \in 0..Len(e)}

\* ... and of three groups
Split3(e) ==
    UNION {{<<SubSeq(e, 1, c1), SubSeq(e, c1 + 1, c2), SubSeq(e, c2 + 1, Len(e))>> :
               c2 \in c1..Len(e)} : c1 \in 0..Len(e)}

(* SpecResolve: two servers, three groups with any members among them       *)
(* (nested, repeated, cyclic), no vault file.                              *)
ResolvePool == {"srv1", "srv2", "grp1", "grp2", "grp3"}

ResolveDocs ==
    {Doc(<<ServerItem("srv1", <<>>), ServerItem("srv2", <<>>)>>, "object",
         <<GroupItem("grp1", m[1]), GroupItem("grp2", m[2]),
           GroupItem("grp3", m[3])>>,
         Absent, Absent) :
       m \in UNION {Split3(e) : e \in SeqsUpTo(ResolvePool, MaxEdges)}}

(* SpecLoad: files that load and files that do not.                        *)
LoadPool == {"srv1", "srv2", "grp1", "nope"}

LoadServers ==
    {<<>>, <<ServerItem("srv1", <<>>)>>,
     <<ServerItem("srv1", <<>>), ServerItem("srv2", <<>>)>>,
     <<ServerItem("srv2", <<>>), ServerItem("srv1", <<>>)>>}

LoadGroups ==
    {<<>>}
    \cup {<<GroupItem(g, e)>> :
            g \in {"grp1", "grp2", "srv1"}, e \in SeqsUpTo(LoadPool, MaxLoadEdges)}
    \cup UNION {{<<GroupItem(g[1], m[1]), GroupItem(g[2], m[2])>> :
                    g \in {<<"grp1", "grp2">>, <<"grp2", "grp1">>},
                    m \in Split2(e)} :
                  e \in SeqsUpTo(LoadPool, MaxLoadEdges)}

LoadDefaults == {Absent, None, "", "srv1", "grp1", "nope"}

LoadDocs ==
    {Doc(s, "object", g, d, v) :
        s \in LoadServers, g \in LoadGroups \ {<<>>}, d \in LoadDefaults,
        v \in {Absent, None, ""}}
    \cup {Doc(s, k, <<>>, d, Absent) :
        s \in LoadServers, k \in {"absent", "null"}, d \in LoadDefaults}

LoadFiles ==
    {GoodFile(doc) : doc \in LoadDocs}
    \cup {[readable |-> r, yaml_ok |-> FALSE,
           doc |-> Doc(<<>>, "absent", <<>>, Absent, Absent)] : r \in BOOLEAN}

InitWith(envs) ==
    /\ env \in envs
    /\ keyring = None
    /\ sf = NewServerFile
    /\ heap = <<>>
    /\ result = NoResult
    /\ held = {}
    /\ nmut = 0
    /\ calls = [t \in Threads |-> IdleCall]

InitResolve ==
    InitWith({Env(GoodFile(doc), NoVaultFile, DefaultArgs, None) :
                doc \in ResolveDocs})

InitLoad ==
    InitWith({Env(file, NoVaultFile, DefaultArgs, None) : file \in LoadFiles})

NextQueries ==
    \/ Open
    \/ \E n \in QueryNicks : GetServer(n)
    \/ \E n \in QueryNicks : ListServers(n)
    \/ ListDefaultServers
    \/ ListAllServers

SpecResolve == InitResolve /\ [][NextQueries]_vars

SpecLoad == InitLoad /\ [][NextQueries]_vars

(* Spec: server files with user-defined values and a vault file; the       *)
(* caller keeps what it is handed and may change it.                       *)
SecretValue(n) ==
    IF n = "srv1" THEN <<11, 12>> ELSE IF n = "srv2" THEN <<21>> ELSE <<31>>

SecretItems(nicks) == [i \in 1..Len(nicks) |-> [nick |-> nicks[i], value |-> SecretValue(nicks[i])]]

VaultFiles ==
    {[exists |-> TRUE, encrypted |-> enc, password |-> "good", yaml_ok |-> TRUE,
      schema_ok |-> TRUE, secrets |-> SecretItems(nicks)] :
        enc \in BOOLEAN,
        nicks \in {<<>>, <<"srv1">>, <<"grp1", "srv1">>, <<"srv2", "srv1">>}}

VaultServers ==
    {<<ServerItem("srv1", <<1, 2>>)>>,
     <<ServerItem("srv2", <<3>>), ServerItem("srv1", <<>>)>>}

\* the groups and the default of the file
VaultGroups ==
    {[groups |-> <<>>, default |-> Absent],
     [groups |-> <<GroupItem("grp1", <<"srv1">>)>>, default |-> "grp1"]}

VaultEnvs ==
    {Env(GoodFile(Doc(s, "object", g.groups, g.default, Absent)), NoVaultFile,
         [DefaultArgs EXCEPT !.use_keyring = FALSE], None) :
        s \in VaultServers, g \in VaultGroups}
    \cup
    {Env(GoodFile(Doc(s, "object", g.groups, g.default, "vault.yml")), vf,
         [DefaultArgs EXCEPT !.use_keyring = FALSE, !.password = "good"], None) :
        s \in VaultServers, g \in VaultGroups, vf \in VaultFiles}

VaultNicks == {"srv1", "srv2", "grp1", "nope"}

Init == InitWith(VaultEnvs)

Next ==
    \/ Open
    \/ \E n \in VaultNicks : GetServer(n)
    \/ \E n \in VaultNicks : ListServers(n)
    \/ ListDefaultServers
    \/ ListAllServers
    \/ \E n \in VaultNicks : GetSecrets(n)
    \/ \E i \in 1..2 : Repr(i)
    \/ \E id \in 1..MaxHeap : Mutate(id)

Spec == Init /\ [][Next]_vars

(* SpecVault: the ways to open the vault file: the file missing, plain or   *)
(* encrypted, not YAML or not of the vault schema; a password given or     *)
(* not, right or wrong; the keyring and the prompt enabled or not.         *)
OpenVaultFiles ==
    {NoVaultFile}
    \cup {[exists |-> TRUE, encrypted |-> enc, password |-> "good",
           yaml_ok |-> ok[1], schema_ok |-> ok[2],
           secrets |-> SecretItems(<<"srv1">>)] :
            enc \in BOOLEAN,
            ok \in {<<TRUE, TRUE>>, <<FALSE, TRUE>>, <<TRUE, FALSE>>}}

OpenVaultDocs ==
    {Doc(<<ServerItem("srv1", <<>>)>>, "absent", <<>>, Absent, v) :
        v \in {Absent, "", "vault.yml", "/dir/vault.yml", "other.yml"}}

OpenVaultArgs ==
    {[DefaultArgs EXCEPT !.password = pw, !.use_keyring = k, !.use_prompting = p] :
        pw \in {None, "good", "bad"}, k \in BOOLEAN, p \in BOOLEAN}

\* server files that name the vault file and do not load: not readable,
\* not YAML, not of the schema, a default or a member that does not exist
OpenVaultBadFiles ==
    {[readable |-> r, yaml_ok |-> FALSE,
      doc |-> Doc(<<>>, "absent", <<>>, Absent, "vault.yml")] : r \in BOOLEAN}
    \cup {GoodFile(Doc(<<ServerItem("srv1", <<>>)>>, "null", <<>>, Absent,
                       "vault.yml")),
          GoodFile(Doc(<<ServerItem("srv1", <<>>)>>, "absent", <<>>, "nope",
                       "vault.yml")),
          GoodFile(Doc(<<ServerItem("srv1", <<>>)>>, "object",
                       <<GroupItem("grp1", <<"srv1", "nope">>)>>, Absent,
                       "vault.yml"))}

OpenVaultServerFiles ==
    {GoodFile(doc) : doc \in OpenVaultDocs} \cup OpenVaultBadFiles

OpenVaultEnvs ==
    {Env(file, vf, args, prompt) :
        file \in OpenVaultServerFiles, vf \in OpenVaultFiles,
        args \in OpenVaultArgs, prompt \in {"good", "bad"}}

InitVault ==
    /\ env \in OpenVaultEnvs
    /\ keyring \in {None, "good", "old"}
    /\ sf = NewServerFile
    /\ heap = <<>>
    /\ result = NoResult
    /\ held = {}
    /\ nmut = 0
    /\ calls = [t \in Threads |-> IdleCall]

NextVault ==
    \/ Open
    \/ IsVaultFileEncrypted
    \/ \E n \in {"srv1", "nope"} : GetServer(n)
    \/ VaultFileRewritten

SpecVault == InitVault /\ [][NextVault]_vars

(* SpecSchema: documents that violate the schema of the server file, and   *)
(* documents that do not, loaded with and without schemas for the          *)
(* user-defined portions and for the items of the vault file.              *)
SchemaGroupItem(n, description, members_key, members, ud) ==
    [nick |-> n, description |-> description, members_key |-> members_key,
     members |-> members, user_defined |-> ud]

ValidGroups ==
    {<<>>}
    \cup {<<SchemaGroupItem("grp1", "group", "array", <<>>, ud)>> :
            ud \in {<<>>, <<5>>, <<5, 6>>}}

InvalidGroups ==
    {<<SchemaGroupItem("grp1", Absent, "array", <<>>, <<>>)>>,
     <<SchemaGroupItem("grp1", "group", "absent", <<>>, <<>>)>>,
     <<SchemaGroupItem("grp1", "group", "array", <<NotAString>>, <<>>)>>,
     <<SchemaGroupItem("grp1", "group", "array", <<"grp1", NotAString>>, <<>>)>>,
     <<SchemaGroupItem("grp1", "group", "array", <<>>, <<>>),
       SchemaGroupItem("grp2", Absent, "array", <<"grp1", NotAString>>, <<>>)>>}

SchemaServers ==
    {<<>>, <<ServerItem("srv1", <<>>)>>, <<ServerItem("srv1", <<1>>)>>,
     <<ServerItem("srv1", <<1, 2>>)>>,
     <<ServerItem("srv1", <<1, 2>>), ServerItem("srv2", <<>>)>>}

SchemaDocs ==
    {Doc(srv, "object", g, d, v) :
        srv \in SchemaServers, g \in ValidGroups, d \in {Absent, "nope"},
        v \in {Absent, "vault.yml"}}
    \cup {Doc(srv, "object", g, Absent, Absent) :
            srv \in {<<>>, <<ServerItem("srv1", <<>>)>>}, g \in InvalidGroups}
    \cup {[Doc(<<>>, "absent", <<>>, Absent, Absent) EXCEPT !.kind = "list"],
          [Doc(<<>>, "absent", <<>>, Absent, Absent) EXCEPT !.servers_key = "absent"],
          [Doc(<<>>, "object",
               <<SchemaGroupItem("grp1", Absent, "array", <<>>, <<>>)>>,
               Absent, Absent) EXCEPT !.servers_key = "absent"]}

SchemaArgs ==
    {[DefaultArgs EXCEPT !.use_keyring = FALSE,
                         !.user_defined_schema = u,
                         !.group_user_defined_schema = g,
                         !.vault_server_schema = v] :
        u \in {None, "{}", "broken", "required_sub"},
        g \in {None, "broken", "required_sub"},
        v \in {None, "broken", "required_sub"}}

SchemaVaultFiles ==
    {[exists |-> TRUE, encrypted |-> FALSE, password |-> "good",
      yaml_ok |-> TRUE, schema_ok |-> TRUE, secrets |-> SecretItems(nicks)] :
        nicks \in {<<>>, <<"srv1">>}}

\* groups with members that name no server and no group
DanglingGroups ==
    {<<SchemaGroupItem("grp1", "group", "array", <<"nope">>, <<5, 6>>)>>,
     <<SchemaGroupItem("grp1", "group", "array", <<"grp1", "nope", "gone">>, <<>>)>>,
     <<SchemaGroupItem("grp1", "group", "array", <<>>, <<5>>),
       SchemaGroupItem("grp2", "group", "array", <<"gone", "nope">>, <<5, 6>>)>>,
     <<SchemaGroupItem("grp2", "group", "array", <<"grp1", "gone">>, <<5, 6>>),
       SchemaGroupItem("grp1", "group", "array", <<"nope">>, <<5, 6>>)>>}

\* documents with several faults: members that do not exist, with a
\* default that does not exist, in a file that breaks the schema or not
FaultyDocs ==
    {Doc(srv, "object", g, d, Absent) :
        srv \in SchemaServers, g \in DanglingGroups, d \in {Absent, "nope"}}
    \cup {Doc(<<ServerItem("srv1", <<>>)>>, "object", g, "nope", Absent) :
            g \in InvalidGroups}
    \cup {Doc(<<ServerItem("srv1", <<1, 2>>)>>, "object",
              <<SchemaGroupItem("grp1", "group", "array",
                                <<"nope", NotAString>>, <<5, 6>>)>>,
              d, Absent) : d \in {Absent, "nope"}}

SchemaFiles ==
    {GoodFile(doc) : doc \in SchemaDocs \cup FaultyDocs}
    \cup {[readable |-> r, yaml_ok |-> FALSE,
           doc |-> Doc(<<>>, "absent", <<>>, Absent, Absent)] : r \in BOOLEAN}

InitSchema ==
    InitWith({Env(file, vf, args, None) :
                file \in SchemaFiles, vf \in SchemaVaultFiles, args \in SchemaArgs})

NextSchema ==
    \/ Open
    \/ \E n \in {"srv1", "grp1"} : ListServers(n)
    \/ ListAllServers

SpecSchema == InitSchema /\ [][NextSchema]_vars

(* SpecThreads: two threads, each with one call of a query, on a           *)
(* ServerFile with nested groups, with and without a vault file.           *)
ThreadDocs ==
    {Doc(<<ServerItem("srv1", <<1>>), ServerItem("srv2", <<>>)>>, "object",
         <<GroupItem("grp1", <<"srv2", "srv1">>),
           GroupItem("grp2", <<"grp1", "srv1">>)>>, d, v) :
        d \in {Absent, "grp2"}, v \in {Absent, "vault.yml"}}

ThreadVaultFiles ==
    {[exists |-> TRUE, encrypted |-> enc, password |-> "good", yaml_ok |-> TRUE,
      schema_ok |-> TRUE, secrets |-> SecretItems(<<"srv1">>)] :
        enc \in BOOLEAN}

ThreadEnvs ==
    {Env(GoodFile(doc), vf,
         [DefaultArgs EXCEPT !.use_keyring = FALSE, !.password = "good"], None) :
        doc \in ThreadDocs, vf \in ThreadVaultFiles}

\* the calls of the threads: <<op, arg>>
ThreadCalls ==
    {<<"get_server", n>> : n \in {"srv1", "nope"}}
    \cup {<<"list_servers", n>> : n \in {"srv1", "grp2", "nope"}}
    \cup {<<"get_secrets", n>> : n \in {"srv1", "srv2"}}
    \cup {<<"list_default_servers", "">>, <<"list_all_servers", "">>,
          <<"is_vault_file_encrypted", "">>, <<"nicknames", "">>}

InitThreads == InitWith(ThreadEnvs)

NextThreads ==
    \/ Open
    \/ \E t \in Threads, c \in ThreadCalls : Begin(t, c[1], c[2])
    \/ \E t \in Threads : Step(t)

SpecThreads == InitThreads /\ [][NextThreads]_vars

----------------------------------------------------------------------------
(* What the claims speak of *)

IsServer(data, n) == \E i \in 1..Len(data.servers) : data.servers[i].nick = n
IsGroup(data, n) ==
    \E i \in 1..Len(data.server_groups) : data.server_groups[i].nick = n

\* the members of group g that are groups themselves (a nickname that is a
\* server is a leaf)
SubGroups(data, g) ==
    {m \in {data.server_groups[i].nick : i \in 1..Len(data.server_groups)} :
        /\ ~IsServer(data, m)
        /\ \E i \in 1..Len(data.server_groups) :
             /\ data.server_groups[i].nick = g
             /\ \E j \in 1..Len(data.server_groups[i].members) :
                  data.server_groups[i].members[j] = m}

\* the groups reached from the groups S in at most k steps
RECURSIVE ReachedGroups(_, _, _)
ReachedGroups(data, S, k) ==
    IF k = 0 THEN S
    ELSE ReachedGroups(data, S \cup UNION {SubGroups(data, g) : g \in S}, k - 1)

Acyclic(data) ==
    \A i \in 1..Len(data.server_groups) :
        LET g == data.server_groups[i].nick
        IN  g \notin ReachedGroups(data, SubGroups(data, g),
                                   Len(data.server_groups))

\* the leaves of the depth-first, left-to-right walk from n, with repetitions
RECURSIVE Walk(_, _)
RECURSIVE WalkMembers(_, _, _)
Walk(data, n) ==
    IF IsServer(data, n) THEN <<n>>
    ELSE IF IsGroup(data, n)
    THEN WalkMembers(data,
           (CHOOSE it \in {data.server_groups[i] : i \in 1..Len(data.server_groups)} :
               it.nick = n).members, 1)
    ELSE <<>>
WalkMembers(data, members, i) ==
    IF i > Len(members) THEN <<>>
    ELSE Walk(data, members[i]) \o WalkMembers(data, members, i + 1)

\* a list without the later occurrences of its elements
RECURSIVE FirstOccurrences(_)
FirstOccurrences(q) ==
    IF q = <<>> THEN <<>>
    ELSE LET front == FirstOccurrences(SubSeq(q, 1, Len(q) - 1))
             last == q[Len(q)]
         IN  IF \E i \in 1..Len(front) : front[i] = last THEN front
             ELSE Append(front, last)

\* the last call was op and it returned
Returned(op) == sf.state = "open" /\ result.op = op /\ result.exc = NoExc

\* C1: in a loaded file without a cycle of groups, list_servers(n) of a
\* declared nickname n returns the leaves of the depth-first, left-to-right
\* walk from n, each once, at the place of its first occurrence; every
\* record returned names a server of the file.
C1_ListServersExpansion ==
    (/\ sf.state = "open"
     /\ result.op = "list_servers"
     /\ Acyclic(sf.data)
     /\ IsServer(sf.data, result.arg) \/ IsGroup(sf.data, result.arg))
    => /\ result.exc = NoExc
       /\ Nicknames(result.servers)
            = FirstOccurrences(Walk(sf.data, result.arg))
       /\ IsServer(sf.data, result.arg)
            => Nicknames(result.servers) = <<result.arg>>
       /\ \A i \in 1..Len(result.servers) :
            /\ IsServer(sf.data, result.servers[i].nickname)
            /\ ~IsGroup(sf.data, result.servers[i].nickname)

\* a server is reached twice, through a nested group and directly, and is
\* listed once
C1_Witness ==
    /\ Returned("list_servers")
    /\ result.arg = "grp2"
    /\ Acyclic(sf.data)
    /\ SubGroups(sf.data, "grp2") = {"grp1"}
    /\ Walk(sf.data, "grp1") = <<"srv2">>
    /\ Walk(sf.data, "grp2") = <<"srv2", "srv2">>
    /\ Nicknames(result.servers) = <<"srv2">>

\* group g is on a cycle of groups
OnCycle(data, g) ==
    g \in ReachedGroups(data, SubGroups(data, g), Len(data.server_groups))

\* the expansion of group g comes to a group that is on a cycle
ReachesCycle(data, g) ==
    \E c \in ReachedGroups(data, {g}, Len(data.server_groups)) : OnCycle(data, c)

\* C16: a file with a cycle of groups, in which no nickname is both a server
\* and a group, loads; list_servers of a group whose expansion comes to a
\* group on a cycle recurses until the interpreter stops it: it returns no
\* list and raises no KeyError.
C16_CyclesRecurse ==
    /\ (sf.state # "new" /\ ~Acyclic(env.file.doc)
        /\ \A i \in 1..Len(env.file.doc.server_groups) :
              ~IsServer(env.file.doc, env.file.doc.server_groups[i].nick))
       => /\ sf.state = "open"
          /\ sf.data.server_groups = env.file.doc.server_groups
    /\ (/\ sf.state = "open"
        /\ result.op = "list_servers"
        /\ IsGroup(sf.data, result.arg)
        /\ ~IsServer(sf.data, result.arg)
        /\ ReachesCycle(sf.data, result.arg))
       => /\ result.exc.cls = "RecursionError"
          /\ result.servers = <<>>

\* grp1 includes itself; grp2 lists a server and then grp1
C16_Witness ==
    /\ sf.state = "open"
    /\ result.op = "list_servers"
    /\ result.arg = "grp2"
    /\ Lookup(sf.data.server_groups, "grp1").members = <<"grp1">>
    /\ Lookup(sf.data.server_groups, "grp2").members = <<"srv1", "grp1">>
    /\ ~OnCycle(sf.data, "grp2")
    /\ result.exc.cls = "RecursionError"

----------------------------------------------------------------------------
(* The file as written, before it is loaded *)

TheDoc == env.file.doc

DocNicks(doc) ==
    {doc.servers[i].nick : i \in 1..Len(doc.servers)}
    \cup {doc.server_groups[i].nick : i \in 1..Len(doc.server_groups)}

\* the places <<g, j>> of the members that name no server and no group
Dangling(doc) ==
    {p \in (1..Len(doc.server_groups)) \X (1..(MaxLoadEdges + 1)) :
        /\ p[2] <= Len(doc.server_groups[p[1]].members)
        /\ doc.server_groups[p[1]].members[p[2]] \notin DocNicks(doc)}

\* the first of them in the order of the file
FirstDangling(doc) ==
    CHOOSE p \in Dangling(doc) :
        \A q \in Dangling(doc) : p[1] < q[1] \/ (p[1] = q[1] /\ p[2] <= q[2])

\* the file can be read, is YAML, and has the format of the schema; no
\* schema for the user-defined portions is given
SchemaValid ==
    /\ env.file.readable
    /\ env.file.yaml_ok
    /\ TheDoc.kind = "object"
    /\ TheDoc.servers_key = "object"
    /\ TheDoc.vault_file # None
    /\ TheDoc.groups_key # "null"
    /\ TheDoc.default # None
    /\ \A i \in 1..Len(TheDoc.server_groups) :
          LET g == TheDoc.server_groups[i]
          IN  /\ g.description # Absent
              /\ g.members_key = "array"
              /\ \A j \in 1..Len(g.members) : g.members[j] # NotAString
    /\ env.args.user_defined_schema = None
    /\ env.args.group_user_defined_schema = None

DanglingDefault ==
    TheDoc.default \notin {Absent, None, ""} /\ TheDoc.default \notin DocNicks(TheDoc)

MembersDeclared ==
    \A i \in 1..Len(sf.data.server_groups) :
        \A j \in 1..Len(sf.data.server_groups[i].members) :
            LET m == sf.data.server_groups[i].members[j]
            IN  IsServer(sf.data, m) \/ IsGroup(sf.data, m)

\* C2 as claimed: a file with a member that names no server and no group
\* fails to load with the error that names the group and the member; every
\* loaded table has only declared members.
C2_Original ==
    /\ (sf.state # "new" /\ SchemaValid /\ Dangling(TheDoc) # {})
       => /\ sf.state = "failed"
          /\ sf.exc.cls = "ServerFileFormatError"
          /\ sf.exc.what = "member_not_found"
          /\ \E p \in Dangling(TheDoc) :
                /\ sf.exc.group = TheDoc.server_groups[p[1]].nick
                /\ sf.exc.nick = TheDoc.server_groups[p[1]].members[p[2]]
    /\ sf.state = "open" => MembersDeclared

\* C2 as amended: such a file fails to load; the error names the group and
\* the member of the first such member in the order of the file, unless
\* the default is a non-empty string that names no server and no group: then
\* it names the default.  Every loaded table has only declared members.
C2_DanglingMemberFailsLoad ==
    /\ (sf.state # "new" /\ SchemaValid /\ Dangling(TheDoc) # {})
       => /\ sf.state = "failed"
          /\ sf.exc.cls = "ServerFileFormatError"
          /\ IF DanglingDefault
             THEN sf.exc.what = "default_not_found" /\ sf.exc.nick = TheDoc.default
             ELSE LET p == FirstDangling(TheDoc)
                  IN  /\ sf.exc.what = "member_not_found"
                      /\ sf.exc.group = TheDoc.server_groups[p[1]].nick
                      /\ sf.exc.nick = TheDoc.server_groups[p[1]].members[p[2]]
    /\ sf.state = "open" => MembersDeclared

\* two members name nothing; the error names the first
C2_Witness ==
    /\ sf.state = "failed"
    /\ SchemaValid
    /\ Cardinality(Dangling(TheDoc)) = 2
    /\ Len(TheDoc.server_groups) = 2
    /\ TheDoc.server_groups[2].members = <<"nope">>
    /\ ~DanglingDefault
    /\ sf.exc.what = "member_not_found"
    /\ sf.exc.group = TheDoc.server_groups[1].nick
    /\ sf.exc.nick = "nope"

\* C3 as claimed: a default that is a string and names no server and no
\* group (the empty string too) fails the load with the error naming it; the
\* default of a loaded table is None or a declared nickname.
C3_Original ==
    /\ (sf.state # "new" /\ SchemaValid
        /\ TheDoc.default \notin {Absent, None}
        /\ TheDoc.default \notin DocNicks(TheDoc))
       => /\ sf.state = "failed"
          /\ sf.exc.what = "default_not_found"
          /\ sf.exc.nick = TheDoc.default
    /\ sf.state = "open"
       => \/ sf.data.default = None
          \/ IsServer(sf.data, sf.data.default)
          \/ IsGroup(sf.data, sf.data.default)

\* C11 as claimed: in a loaded table no nickname is both a server and a
\* group; a file that declares a nickname under servers and under
\* server_groups does not load.
C11_Original ==
    /\ sf.state = "open"
       => \A i \in 1..Len(sf.data.server_groups) :
             ~IsServer(sf.data, sf.data.server_groups[i].nick)
    /\ (sf.state # "new" /\ env.file.readable /\ env.file.yaml_ok
        /\ \E i \in 1..Len(TheDoc.server_groups) :
              \E j \in 1..Len(TheDoc.servers) :
                 TheDoc.server_groups[i].nick = TheDoc.servers[j].nick)
       => sf.state = "failed"

\* the path the claim expects for the vault file named v in the server file
ExpectedVaultPath(v) ==
    IF IsAbs(v) THEN v ELSE PathJoin(Dirname(env.args.filepath), v)

\* C13 as claimed: an open ServerFile has a VaultFile exactly when the
\* vault_file of the loaded table is not None (the empty string too); its
\* vault_file property is None exactly when it has no VaultFile and is
\* otherwise the absolute path, or the path joined to the directory of the
\* server file.
C13_Original ==
    sf.state = "open"
    => /\ sf.has_vault <=> sf.data.vault_file # None
       /\ sf.vault_file = None <=> ~sf.has_vault
       /\ sf.has_vault
          => /\ sf.vault_file = ExpectedVaultPath(sf.data.vault_file)
             /\ sf.vault.filepath = sf.vault_file

\* the causes of a failed load, from the file as written
CauseOpen == ~env.file.readable
CauseYaml == env.file.readable /\ ~env.file.yaml_ok
CauseSchema ==
    env.file.readable /\ env.file.yaml_ok /\ SchemaViolations(TheDoc) # {}
CauseReference == SchemaValid /\ (DanglingDefault \/ Dangling(TheDoc) # {})

\* the server file does not load: it cannot be read, is not YAML, is not
\* of the schema, or names a default or a member that does not exist
DefinitionFails == CauseOpen \/ CauseYaml \/ CauseSchema \/ CauseReference

\* the exception classes the loader raises for one file of each cause
ClsOf(file) ==
    {o.exc.cls : o \in load_server_file(<<>>, file, None, None)}
SampleDoc(default, vault_file) == Doc(<<>>, "absent", <<>>, default, vault_file)
OpenCls ==
    ClsOf([readable |-> FALSE, yaml_ok |-> FALSE, doc |-> SampleDoc(Absent, Absent)])
YamlCls ==
    ClsOf([readable |-> TRUE, yaml_ok |-> FALSE, doc |-> SampleDoc(Absent, Absent)])
SchemaCls == ClsOf(GoodFile(SampleDoc(Absent, None)))
ReferenceCls == ClsOf(GoodFile(SampleDoc("nope", Absent)))

C8_DefaultsEstablished ==
    sf.state = "open"
    => /\ sf.data.groups_key = "object"
       /\ sf.data.default # Absent
       /\ sf.data.vault_file # Absent
       /\ sf.data.server_groups
            = IF TheDoc.groups_key = "absent" THEN <<>> ELSE TheDoc.server_groups
       /\ sf.data.default
            = IF TheDoc.default = Absent THEN None ELSE TheDoc.default
       /\ sf.data.vault_file
            = IF TheDoc.vault_file = Absent THEN None ELSE TheDoc.vault_file
       /\ Keys(sf.data.servers) = Keys(TheDoc.servers)

\* the file is "servers: {}" and nothing else
C8_Witness ==
    /\ sf.state = "open"
    /\ TheDoc = Doc(<<>>, "absent", <<>>, Absent, Absent)
    /\ sf.data.servers = <<>>
    /\ sf.data.server_groups = <<>>
    /\ sf.data.default = None
    /\ sf.data.vault_file = None

\* the description of server n in the file as written
DocDescription(n) ==
    (CHOOSE it \in {TheDoc.servers[i] : i \in 1..Len(TheDoc.servers)} :
        it.nick = n).description

\* C5: list_default_servers returns the empty list when the table has no
\* default, and otherwise what list_servers returns for the default: the
\* one server, or the servers of the group, or its KeyError.
C5_ListDefaultServers ==
    (sf.state = "open" /\ result.op = "list_default_servers")
    => IF sf.data.default = None
       THEN result.exc = NoExc /\ result.servers = <<>>
       ELSE IF IsServer(sf.data, sf.data.default) \/ IsGroup(sf.data, sf.data.default)
       THEN Acyclic(sf.data)
            => /\ result.exc = NoExc
               /\ Nicknames(result.servers)
                    = FirstOccurrences(Walk(sf.data, sf.data.default))
               /\ \A i \in 1..Len(result.servers) :
                    result.servers[i].description
                      = DocDescription(result.servers[i].nickname)
       ELSE result.exc = Exc("KeyError", "server_or_group_not_found",
                             sf.data.default, "")

\* the default is a group of two servers, in the order of its members
C5_Witness ==
    /\ Returned("list_default_servers")
    /\ sf.data.default = "grp1"
    /\ Keys(sf.data.servers) = <<"srv1", "srv2">>
    /\ Nicknames(result.servers) = <<"srv2", "srv1">>

\* C6: get_server(n) raises the KeyError 'Server with nickname ... not
\* found' for every n that is no server, a group nickname too;
\* list_servers(n) raises the other KeyError, 'Server or server group ...
\* not found', exactly when n is neither a server nor a group.
C6_NotFoundErrors ==
    sf.state = "open"
    => /\ result.op = "get_server"
          => result.exc
               = IF IsServer(sf.data, result.arg) THEN NoExc
                 ELSE Exc("KeyError", "server_not_found", result.arg, "")
       /\ result.op = "list_servers"
          => /\ result.exc.cls = "KeyError"
                  <=> ~IsServer(sf.data, result.arg) /\ ~IsGroup(sf.data, result.arg)
             /\ result.exc.cls = "KeyError"
                  => result.exc = Exc("KeyError", "server_or_group_not_found",
                                      result.arg, "")

\* get_server of the nickname of a group that has a server
C6_Witness ==
    /\ sf.state = "open"
    /\ result.op = "get_server"
    /\ result.arg = "grp1"
    /\ IsGroup(sf.data, "grp1")
    /\ Walk(sf.data, "grp1") = <<"srv1">>
    /\ result.exc = Exc("KeyError", "server_not_found", "grp1", "")

----------------------------------------------------------------------------
(* The vault file as written *)

VaultConfigured == TheDoc.vault_file \notin {Absent, None}

VaultHas(n) ==
    \E i \in 1..Len(env.vaultfile.secrets) : env.vaultfile.secrets[i].nick = n

VaultValue(n) ==
    (CHOOSE it \in {env.vaultfile.secrets[i] : i \in 1..Len(env.vaultfile.secrets)} :
        it.nick = n).value

DocUserDefined(n) ==
    (CHOOSE it \in {TheDoc.servers[i] : i \in 1..Len(TheDoc.servers)} :
        it.nick = n).user_defined

\* the secrets of the records of the last call are those of the vault file
SecretsJoined ==
    /\ \A i \in 1..Len(result.servers) :
         LET rec == result.servers[i]
         IN  /\ IsServer(sf.data, rec.nickname)
             /\ IF VaultConfigured /\ VaultHas(rec.nickname)
                THEN /\ rec.secrets # Nil
                     /\ Deref(heap, rec.secrets) = VaultValue(rec.nickname)
                ELSE rec.secrets = Nil
    /\ (result.op = "get_server" /\ IsServer(sf.data, result.arg))
       => /\ result.exc = NoExc
          /\ Nicknames(result.servers) = <<result.arg>>
    /\ (/\ result.op = "list_servers"
        /\ IsServer(sf.data, result.arg) \/ IsGroup(sf.data, result.arg)
        /\ Acyclic(sf.data))
       => result.exc = NoExc
    /\ (result.op = "list_default_servers" /\ Acyclic(sf.data))
       => result.exc = NoExc
    /\ result.op = "list_all_servers"
       => result.exc = NoExc /\ Len(result.servers) = Len(sf.data.servers)

\* C4: when a call returns, every record it returns for a server n has the
\* secrets of the vault entry of n if a vault file is configured and has n,
\* and None otherwise; no query of a declared nickname fails for a missing
\* vault entry; no record is returned for a nickname that is no server.
C4_SecretsJoin == [][nmut' = nmut => SecretsJoined']_vars

\* the vault file has entries for grp1 and srv1; the server of group grp1 is
\* returned with the secrets of srv1
C4_Witness ==
    /\ Returned("list_servers")
    /\ result.arg = "grp1"
    /\ VaultConfigured
    /\ VaultHas("grp1")
    /\ Nicknames(result.servers) = <<"srv1">>
    /\ result.servers[1].secrets # Nil
    /\ Deref(heap, result.servers[1].secrets) = <<11, 12>>

\* C7: list_all_servers returns one record for each server of the file, in
\* the order of the file, whatever the groups and the vault file hold.
C7_ListAllServers ==
    (sf.state = "open" /\ result.op = "list_all_servers")
    => /\ result.exc = NoExc
       /\ Nicknames(result.servers) = Keys(TheDoc.servers)

\* two servers, a group, a vault file with an entry for the group
C7_Witness ==
    /\ Returned("list_all_servers")
    /\ Keys(TheDoc.servers) = <<"srv2", "srv1">>
    /\ Len(TheDoc.server_groups) = 1
    /\ VaultConfigured
    /\ VaultHas("grp1")
    /\ Nicknames(result.servers) = <<"srv2", "srv1">>

\* the objects of the secrets of the VaultFile object
VaultObjects ==
    UNION {Reach(heap, sf.vault.secrets[i].ref) : i \in 1..Len(sf.vault.secrets)}

\* the secrets handed to the caller
SecretRoots ==
    held \ {sf.data.servers[i].user_defined : i \in 1..Len(sf.data.servers)}

VaultTableIntact ==
    \A i \in 1..Len(sf.vault.secrets) :
        Deref(heap, sf.vault.secrets[i].ref) = env.vaultfile.secrets[i].value

NoSharedSecrets ==
    /\ \A r \in SecretRoots : Reach(heap, r) \cap VaultObjects = {}
    /\ \A r1 \in SecretRoots : \A r2 \in SecretRoots \ {r1} :
          Reach(heap, r1) \cap Reach(heap, r2) = {}

\* C9: whatever the caller has changed in the values it was handed, the
\* secrets of the VaultFile are those read from the file, get_secrets(n)
\* returns the value of the file, and no two returned values share an
\* object with each other or with the VaultFile.
C9_GetSecretsDeepCopy ==
    [][/\ VaultTableIntact'
       /\ NoSharedSecrets'
       /\ (nmut' = nmut /\ result'.op = "get_secrets" /\ result'.exc = NoExc)
          => Deref(heap', result'.ref) = VaultValue(result'.arg)]_vars

\* two values returned for srv1; the nested level of one was changed, the
\* other is as in the file
C9_Witness ==
    /\ Returned("get_secrets")
    /\ result.arg = "srv1"
    /\ nmut >= 1
    /\ Deref(heap, result.ref) = <<11, 12>>
    /\ \E r \in SecretRoots \ {result.ref} : Deref(heap, r) = <<11, MutVal>>

\* C10 as claimed: when a call returns, however the caller has changed the
\* records returned before, the user_defined and the secrets of every
\* record are those of the files.
C10_Original ==
    [][(nmut' = nmut /\ sf'.state = "open" /\ result'.exc = NoExc)
       => /\ SecretsJoined'
          /\ \A i \in 1..Len(result'.servers) :
                Deref(heap', result'.servers[i].user_defined)
                  = DocUserDefined(result'.servers[i].nickname)]_vars

----------------------------------------------------------------------------
(* Opening the vault file *)

\* the server file names a vault file, and that file is there
VaultFileThere ==
    /\ VaultConfigured
    /\ ExpectedVaultPath(TheDoc.vault_file) = VaultPath
    /\ env.vaultfile.exists

\* the server file loads and names a vault file that is there
VaultFileReached == ~DefinitionFails /\ VaultFileThere

\* the step that constructs the ServerFile
Opening == sf.state = "new" /\ sf'.state # "new"

C17_Original ==
    [][(/\ Opening
        /\ sf'.exc.cls = "VaultFileFormatError"
        /\ sf'.exc.what = "schema")
       => keyring' = keyring]_vars

\* C18: easy_vault.get_password is called when the ServerFile is opened
\* exactly if the vault file is there, is encrypted and no password was
\* given: not for a vault file that is not encrypted, not when a password
\* was given, not when the vault file cannot be opened.
C18_PasswordAcquisition ==
    [][Opening
       => /\ sf'.acquired
             <=> /\ VaultFileReached
                 /\ env.vaultfile.encrypted
                 /\ env.args.password = None
          /\ (~DefinitionFails /\ VaultConfigured /\ TheDoc.vault_file # ""
                  /\ ~VaultFileThere)
             => /\ sf'.exc.cls = "VaultFileOpenError"
                /\ ~sf'.acquired
                /\ sf'.decrypts = 0]_vars

\* the password of an encrypted vault file was taken from the keyring
C18_Witness ==
    /\ sf.state = "open"
    /\ sf.acquired
    /\ sf.vault.encrypted
    /\ env.args.password = None
    /\ env.args.use_keyring
    /\ keyring = "good"

\* the password the open has: the one given, else the one of the keyring if
\* the keyring is enabled and has one, else the one prompted for if
\* prompting is enabled, else none
PasswordObtained ==
    IF env.args.password # None THEN env.args.password
    ELSE IF env.args.use_keyring /\ keyring # None THEN keyring
    ELSE IF env.args.use_prompting THEN env.prompt
    ELSE None

\* C19: opening an encrypted vault file with a password that is not the
\* one of the file, or with none, fails with VaultFileDecryptError after one
\* attempt to decrypt; there is no VaultFile and the keyring is as it was.
C19_DecryptFailure ==
    [][(/\ Opening
        /\ VaultFileReached
        /\ env.vaultfile.encrypted
        /\ PasswordObtained # env.vaultfile.password)
       => /\ sf'.state = "failed"
          /\ sf'.exc.cls = "VaultFileDecryptError"
          /\ ~sf'.has_vault
          /\ sf'.decrypts = 1
          /\ sf'.acquired <=> env.args.password = None
          /\ keyring' = keyring]_vars

\* no password is given, the keyring and prompting are disabled
C19_Witness ==
    /\ sf.state = "failed"
    /\ sf.exc.cls = "VaultFileDecryptError"
    /\ env.args.password = None
    /\ ~env.args.use_keyring
    /\ ~env.args.use_prompting
    /\ env.prompt = "good"
    /\ keyring = "good"

----------------------------------------------------------------------------
(* Schemas *)

\* the file is read and is YAML
Parsed == env.file.readable /\ env.file.yaml_ok

\* the names of array indexes in a message
IndexName == <<"0", "1", "2">>

\* the places at which the file breaks the schema of the server file, as
\* the message names them
ExpectedElems(doc) ==
    IF doc.kind # "object" THEN {"top-level element"}
    ELSE
    LET gs == {doc.server_groups[i] : i \in 1..Len(doc.server_groups)}
    IN  (IF doc.servers_key = "absent" THEN {"top-level element"} ELSE {})
        \cup (IF doc.vault_file = None THEN {"element 'vault_file'"} ELSE {})
        \cup (IF doc.groups_key = "null" THEN {"element 'server_groups'"} ELSE {})
        \cup (IF doc.default = None THEN {"element 'default'"} ELSE {})
        \cup {"element 'server_groups." \o g.nick \o "'" :
                g \in {x \in gs : x.description = Absent \/ x.members_key = "absent"}}
        \cup UNION {{"element 'server_groups." \o g.nick \o ".members."
                        \o IndexName[j] \o "'" :
                       j \in {k \in 1..Len(g.members) : g.members[k] = NotAString}} :
                    g \in gs}

\* C20: a file that breaks the schema fails to load with a
\* ServerFileFormatError that names one of the places where it does: the
\* keys and indexes from the top joined with dots, 'server_groups.<name>'
\* for a group without description or members,
\* 'server_groups.<name>.members.<index>' for a member that is no string,
\* and 'top-level element' for a document that is no object or has no
\* 'servers'.  A file that does not break it has no such error.
C20_SchemaPath ==
    (sf.state # "new" /\ Parsed)
    => IF ExpectedElems(TheDoc) # {}
       THEN /\ sf.state = "failed"
            /\ sf.exc.cls = "ServerFileFormatError"
            /\ sf.exc.what = "schema"
            /\ sf.exc.nick \in ExpectedElems(TheDoc)
       ELSE sf.exc.what # "schema" \/ sf.exc.cls # "ServerFileFormatError"

\* the second member of grp1 is no string
C20_Witness ==
    /\ sf.state = "failed"
    /\ Len(TheDoc.server_groups) = 1
    /\ TheDoc.server_groups[1].members = <<"grp1", NotAString>>
    /\ sf.exc.nick = "element 'server_groups.grp1.members.1'"

\* the classes of the errors for a schema that is itself invalid
SchemaErrorClasses ==
    {"ServerFileUserDefinedSchemaError", "ServerFileGroupUserDefinedSchemaError",
     "VaultFileServerSchemaError"}

\* C15 as claimed: when a schema given by the caller is invalid (for the
\* items of the vault file: and the server file names a vault file that is
\* there), every file that has the format of the schema of the server file
\* and no default or member that names nothing fails to load, with one of
\* the errors for an invalid schema.
C15_Original ==
    (/\ sf.state # "new"
     /\ Parsed
     /\ ExpectedElems(TheDoc) = {}
     /\ ~DanglingDefault
     /\ Dangling(TheDoc) = {}
     /\ \/ env.args.user_defined_schema = "broken"
        \/ env.args.group_user_defined_schema = "broken"
        \/ env.args.vault_server_schema = "broken" /\ VaultFileThere)
    => /\ sf.state = "failed"
       /\ sf.exc.cls \in SchemaErrorClasses

----------------------------------------------------------------------------
(* Null values, and queries of loaded files *)

\* the elements the file writes as null
NullElems ==
    (IF TheDoc.default = None THEN {"element 'default'"} ELSE {})
    \cup (IF TheDoc.vault_file = None THEN {"element 'vault_file'"} ELSE {})
    \cup (IF TheDoc.groups_key = "null" THEN {"element 'server_groups'"} ELSE {})

\* C22: a file without 'default' loads with default None, and one without
\* 'vault_file' with vault_file None; a file that writes null for
\* 'default', 'vault_file' or 'server_groups' fails to load with a
\* ServerFileFormatError for one of these elements ('default' when it is the
\* only one), so no loaded file has written a null.
C22_NullNotAccepted ==
    (sf.state # "new" /\ Parsed)
    => /\ NullElems # {}
          => /\ sf.state = "failed"
             /\ sf.exc.cls = "ServerFileFormatError"
             /\ sf.exc.what = "schema"
             /\ sf.exc.nick \in NullElems
       /\ (SchemaValid /\ TheDoc.default = Absent /\ Dangling(TheDoc) = {})
          => sf.state = "open" /\ sf.data.default = None
       /\ (SchemaValid /\ TheDoc.vault_file = Absent /\ sf.state = "open")
          => sf.data.vault_file = None /\ sf.vault_file = None
       /\ sf.state = "open" => NullElems = {}

\* 'default: null' in a file that has no other fault
C22_Witness ==
    /\ sf.state = "failed"
    /\ TheDoc.default = None
    /\ NullElems = {"element 'default'"}
    /\ Dangling(TheDoc) = {}
    /\ sf.exc = Exc("ServerFileFormatError", "schema", "element 'default'", "")

\* C26: in a loaded file without a cycle of groups, list_servers(n) of a
\* declared nickname n returns a list and raises nothing, every member
\* being declared; it returns the empty list exactly when the expansion of
\* n has no server: a group without members, or with groups without
\* servers only.
C26_AcyclicExpansionReturns ==
    (/\ sf.state = "open"
     /\ result.op = "list_servers"
     /\ Acyclic(sf.data)
     /\ IsServer(sf.data, result.arg) \/ IsGroup(sf.data, result.arg))
    => /\ result.exc = NoExc
       /\ MembersDeclared
       /\ result.servers = <<>> <=> Walk(sf.data, result.arg) = <<>>

\* grp2 has the one member grp1, which has no members
C26_Witness ==
    /\ Returned("list_servers")
    /\ result.arg = "grp2"
    /\ Len(sf.data.server_groups) = 2
    /\ Lookup(sf.data.server_groups, "grp2").members = <<"grp1">>
    /\ Lookup(sf.data.server_groups, "grp1").members = <<>>
    /\ result.servers = <<>>

\* C27 as claimed: list_default_servers of a loaded file without a cycle of
\* groups returns a list; it raises no KeyError.
C27_Original ==
    (sf.state = "open" /\ result.op = "list_default_servers" /\ Acyclic(sf.data))
    => result.exc = NoExc

----------------------------------------------------------------------------
(* The expansion with one accumulator *)

\* the expansion of n into the list acc of the nicknames found so far: a
\* server is appended if it is not in acc; the members of a group are
\* expanded in their order into the same list
RECURSIVE ExpandInto(_, _, _)
RECURSIVE ExpandMembersInto(_, _, _, _)
ExpandInto(data, n, acc) ==
    IF IsServer(data, n)
    THEN IF \E k \in 1..Len(acc) : acc[k] = n THEN acc ELSE Append(acc, n)
    ELSE IF IsGroup(data, n)
    THEN ExpandMembersInto(data,
           (CHOOSE it \in {data.server_groups[i] : i \in 1..Len(data.server_groups)} :
               it.nick = n).members, 1, acc)
    ELSE acc
ExpandMembersInto(data, members, i, acc) ==
    IF i > Len(members) THEN acc
    ELSE ExpandMembersInto(data, members, i + 1, ExpandInto(data, members[i], acc))

\* C28: in a loaded file without a cycle of groups, list_servers(n), which
\* keeps a list of the nicknames found in each call of its own, returns for
\* every declared n the servers in the order of the expansion that keeps
\* one list, empty at the start, through the whole recursion.
C28_SameAsAccumulator ==
    (/\ sf.state = "open"
     /\ result.op = "list_servers"
     /\ Acyclic(sf.data)
     /\ IsServer(sf.data, result.arg) \/ IsGroup(sf.data, result.arg))
    => /\ result.exc = NoExc
       /\ Nicknames(result.servers) = ExpandInto(sf.data, result.arg, <<>>)

\* grp3 lists srv1 and then grp1, which has srv1 again: the nested call
\* returns srv1 and the list of grp3 has it already
C28_Witness ==
    /\ Returned("list_servers")
    /\ result.arg = "grp3"
    /\ Lookup(sf.data.server_groups, "grp3").members = <<"srv1", "grp1">>
    /\ Lookup(sf.data.server_groups, "grp1").members = <<"srv1">>
    /\ ExpandInto(sf.data, "grp1", <<"srv1">>) = <<"srv1">>
    /\ Nicknames(result.servers) = <<"srv1">>

\* C24: when the server file does not load, the construction fails with the
\* error of the server file and the vault file is not read: no password is
\* asked of the keyring or by prompting, nothing is decrypted and the
\* keyring is as it was.
C24_DefinitionBeforeVault ==
    [][(Opening /\ DefinitionFails)
       => /\ sf'.state = "failed"
          /\ sf'.exc.cls \in {"ServerFileOpenError", "ServerFileFormatError"}
          /\ ~sf'.vault_read
          /\ ~sf'.acquired
          /\ sf'.decrypts = 0
          /\ keyring' = keyring
          /\ heap' = heap]_vars

\* a server file with a member that does not exist names an encrypted vault
\* file whose password the caller gave, to be kept in the keyring
C24_Witness ==
    /\ sf.state = "failed"
    /\ CauseReference
    /\ VaultFileThere
    /\ env.vaultfile.encrypted
    /\ env.vaultfile.yaml_ok /\ env.vaultfile.schema_ok
    /\ env.args.password = "good"
    /\ env.args.use_keyring
    /\ keyring = None
    /\ sf.exc.cls = "ServerFileFormatError"
    /\ sf.exc.what = "member_not_found"

\* the server file names a vault file ...
VaultNamed == TheDoc.vault_file \notin {Absent, None, ""}

\* ... that is not there
VaultOpenCause == ~VaultFileThere

\* ... that is encrypted, and not with the password the open has
VaultDecryptCause ==
    /\ VaultFileThere
    /\ env.vaultfile.encrypted
    /\ PasswordObtained # env.vaultfile.password

\* ... that is not YAML or does not have the format of the vault schema
VaultFormatCause ==
    /\ VaultFileThere
    /\ ~VaultDecryptCause
    /\ ~env.vaultfile.yaml_ok \/ ~env.vaultfile.schema_ok

C29_Original ==
    [][(/\ Opening
        /\ sf'.state = "open"
        /\ VaultFileReached
        /\ ~env.vaultfile.encrypted
        /\ env.args.password # None
        /\ env.args.use_keyring)
       => keyring' = keyring]_vars

----------------------------------------------------------------------------
(* The order in which a load validates the file *)

\* the places of the servers whose user-defined portion does not pass
ServersUdBad(doc, schema) ==
    {i \in 1..Len(doc.servers) :
        \/ doc.servers[i].user_defined = <<>>
        \/ schema = "broken"
        \/ schema = "required_sub" /\ Len(doc.servers[i].user_defined) < 2}

\* ... and of the groups
GroupsUdBad(doc, schema) ==
    {i \in 1..Len(doc.server_groups) :
        \/ doc.server_groups[i].user_defined = <<>>
        \/ schema = "broken"
        \/ schema = "required_sub" /\ Len(doc.server_groups[i].user_defined) < 2}

\* a schema is given (an empty schema counts as none)
Supplied(schema) == schema \notin {None, "{}"}

Least(S) == CHOOSE i \in S : \A j \in S : i <= j

\* the first check, in the order claimed, that the file does not pass
FirstFailure ==
    IF ~env.file.readable THEN "open"
    ELSE IF ~env.file.yaml_ok THEN "yaml"
    ELSE IF ExpectedElems(TheDoc) # {} THEN "schema"
    ELSE IF /\ Supplied(env.args.user_defined_schema)
            /\ ServersUdBad(TheDoc, env.args.user_defined_schema) # {}
    THEN "servers_user_defined"
    ELSE IF /\ Supplied(env.args.group_user_defined_schema)
            /\ GroupsUdBad(TheDoc, env.args.group_user_defined_schema) # {}
    THEN "groups_user_defined"
    ELSE IF DanglingDefault THEN "default"
    ELSE IF Dangling(TheDoc) # {} THEN "member"
    ELSE "none"

\* the error of that check
FirstFailureRaised(exc) ==
    LET f == FirstFailure
    IN  /\ f = "open" => exc = Exc("ServerFileOpenError", "open", "", "")
        /\ f = "yaml" => exc = Exc("ServerFileFormatError", "yaml", "", "")
        /\ f = "schema"
           => /\ exc.cls = "ServerFileFormatError"
              /\ exc.what = "schema"
              /\ exc.nick \in ExpectedElems(TheDoc)
        /\ f = "servers_user_defined"
           => LET i == Least(ServersUdBad(TheDoc, env.args.user_defined_schema))
                  missing == TheDoc.servers[i].user_defined = <<>>
              IN  IF ~missing /\ env.args.user_defined_schema = "broken"
                  THEN exc = Exc("ServerFileUserDefinedSchemaError", "schema", "", "")
                  ELSE /\ exc.cls = "ServerFileUserDefinedFormatError"
                       /\ exc.nick = TheDoc.servers[i].nick
                       /\ exc.what = "missing" <=> missing
        /\ f = "groups_user_defined"
           => LET i == Least(GroupsUdBad(TheDoc, env.args.group_user_defined_schema))
                  missing == TheDoc.server_groups[i].user_defined = <<>>
              IN  IF ~missing /\ env.args.group_user_defined_schema = "broken"
                  THEN exc = Exc("ServerFileGroupUserDefinedSchemaError", "schema", "", "")
                  ELSE /\ exc.cls = "ServerFileGroupUserDefinedFormatError"
                       /\ exc.group = TheDoc.server_groups[i].nick
                       /\ exc.what = "missing" <=> missing
        /\ f = "default"
           => exc = Exc("ServerFileFormatError", "default_not_found",
                        TheDoc.default, "")
        /\ f = "member"
           => LET p == FirstDangling(TheDoc)
              IN  exc = Exc("ServerFileFormatError", "member_not_found",
                            TheDoc.server_groups[p[1]].members[p[2]],
                            TheDoc.server_groups[p[1]].nick)
        /\ f = "none"
           => exc.cls \notin {"ServerFileOpenError", "ServerFileFormatError",
                              "ServerFileUserDefinedFormatError",
                              "ServerFileUserDefinedSchemaError",
                              "ServerFileGroupUserDefinedFormatError",
                              "ServerFileGroupUserDefinedSchemaError"}

\* C23: a load reports the first check the file does not pass, in the
\* order: reading, YAML, the schema of the server file, the user-defined
\* portions of the servers in file order and then of the groups (if a
\* schema is given), the default, the members in the order of the groups
\* and of their members.  A file that passes them all has no error of the
\* server file.
C23_CheckOrder ==
    sf.state # "new"
    => /\ FirstFailureRaised(sf.exc)
       /\ FirstFailure # "none" => sf.state = "failed" /\ sf.data = EmptyData

\* grp2, declared first, has the member 'gone' that does not exist, grp1
\* has 'nope', and the default does not exist either; with the schema given
\* the user-defined portions pass: the default is reported
C23_Witness ==
    /\ sf.state = "failed"
    /\ FirstFailure = "default"
    /\ Cardinality(Dangling(TheDoc)) = 2
    /\ Len(TheDoc.server_groups) = 2
    /\ TheDoc.server_groups[1].nick = "grp2"
    /\ env.args.user_defined_schema = "required_sub"
    /\ env.args.group_user_defined_schema = "required_sub"
    /\ Len(TheDoc.servers) = 1
    /\ sf.exc = Exc("ServerFileFormatError", "default_not_found", "nope", "")

----------------------------------------------------------------------------
(* repr() of a Server *)

\* other secrets a server could have
OtherSecrets == {<<7>>, <<11, 13>>, <<12, 11>>, <<4, 5, 6>>}

\* the record s with its secrets replaced by the content c, and its heap
WithSecrets(h, s, c) ==
    [heap |-> AllocChain(h, c), server |-> [s EXCEPT !.secrets = NewId(h)]]

\* C30: repr() of a Server that has secrets is the same string whatever
\* the secrets are: it is the repr of the record with any other secrets
\* that are not empty, and it ends with the placeholder; the other
\* attributes are shown as they are.
C30_ReprHidesSecrets ==
    [][(result'.op = "repr" /\ result.op # "repr")
       => LET i == CHOOSE j \in 1..Len(result.servers) :
                       result.servers[j].nickname = result'.arg
              s == result.servers[i]
          IN  /\ heap' = heap
              /\ result'.value = Server_repr(heap', s)
              /\ s.secrets # Nil
                 => /\ \A c \in OtherSecrets :
                          LET o == WithSecrets(heap', s, c)
                          IN  Server_repr(o.heap, o.server) = result'.value
                    /\ result'.value
                         = ReprAttributes(heap', s) \o ", secrets={...})"
              /\ s.secrets = Nil
                 => result'.value
                      = ReprAttributes(heap', s) \o ", secrets=None)"]_vars

\* repr() of srv1 with its user-defined portion and its secrets of the
\* vault file
C30_Witness ==
    /\ result.op = "repr"
    /\ result.arg = "srv1"
    /\ sf.has_vault
    /\ HasKey(sf.vault.secrets, "srv1")
    /\ Deref(heap, Lookup(sf.vault.secrets, "srv1").ref) = <<11, 12>>
    /\ result.value = "Server(nickname='srv1', description='server1', contact_name=None, access_via=None, user_defined={1: {2}}, secrets={...})"

----------------------------------------------------------------------------
(* Queries of several threads *)

\* the objects of the tables of the ServerFile s: the user-defined
\* portions of its servers and the secrets of its VaultFile
TableRoots(s) ==
    ({s.data.servers[i].user_defined : i \in 1..Len(s.data.servers)}
     \cup {s.vault.secrets[i].ref : i \in 1..Len(s.vault.secrets)}) \ {Nil}

TableObjects(h, s) == UNION {Reach(h, r) : r \in TableRoots(s)}

\* the heap as the construction of s left it, before any query
TableHeap(h, s) ==
    SubSeq(h, 1, Cardinality(TableObjects(h, s)))

\* what a caller sees of a Server
ServerView(h, sd) ==
    [nickname |-> sd.nickname, description |-> sd.description,
     contact_name |-> sd.contact_name, access_via |-> sd.access_via,
     user_defined |-> Deref(h, sd.user_defined),
     secrets |-> Deref(h, sd.secrets)]

\* what a caller sees of the outcome of a call
View(h, exc, servers, ref, value, names) ==
    [exc |-> exc,
     servers |-> [i \in 1..Len(servers) |-> ServerView(h, servers[i])],
     secrets |-> Deref(h, ref), value |-> value, names |-> names]

CallView(h, c) == View(h, c.exc, c.servers, c.ref, c.value, c.names)

\* the outcome of op(arg) on s when nothing else runs
AloneView(h, s, op, arg) ==
    IF op = "get_secrets"
    THEN LET r == get_secrets(h, s.vault, arg)
         IN  View(r.heap, r.exc, <<>>, r.ref, None, <<>>)
    ELSE IF op = "nicknames"
    THEN View(h, NoExc, <<>>, Nil, None, Keys(s.vault.secrets))
    ELSE IF op = "is_vault_file_encrypted"
    THEN View(h, NoExc, <<>>, Nil, is_vault_file_encrypted(s), <<>>)
    ELSE LET r == IF op = "get_server" THEN get_server(h, s, arg)
                  ELSE IF op = "list_servers" THEN list_servers(h, s, arg)
                  ELSE IF op = "list_default_servers"
                  THEN list_default_servers(h, s)
                  ELSE list_all_servers(h, s)
         IN  View(r.heap, r.exc, IF r.exc = NoExc THEN r.servers ELSE <<>>,
                  Nil, None, <<>>)

\* C21: whatever the steps of the calls of the threads interleave to, no
\* step changes the open ServerFile, its VaultFile, the objects of their
\* tables or any object that exists, and every call that has finished has
\* the outcome the same call has on the ServerFile when nothing else runs.
C21_QueriesDoNotInterfere ==
    [][sf.state = "open"
       => /\ sf' = sf
          /\ \A r \in TableRoots(sf) : Deref(heap', r) = Deref(heap, r)
          /\ SubSeq(heap', 1, Len(heap)) = heap
          /\ TableHeap(heap', sf') = TableHeap(heap, sf)
          /\ \A t \in Threads :
                calls'[t].pc = "done"
                => CallView(heap', calls'[t])
                     = AloneView(TableHeap(heap', sf'), sf', calls'[t].op,
                                 calls'[t].arg)]_vars

\* get_secrets('srv1') of t2 ran between the two get_server('srv1') of
\* list_servers('grp2') of t1
C21_Witness ==
    /\ calls["t1"].pc = "done"
    /\ calls["t2"].pc = "done"
    /\ calls["t1"].op = "list_servers"
    /\ calls["t1"].arg = "grp2"
    /\ calls["t2"].op = "get_secrets"
    /\ Nicknames(calls["t1"].servers) = <<"srv2", "srv1">>
    /\ Cardinality(TableObjects(heap, sf)) = 3
    /\ calls["t1"].servers[2].secrets = 4
    /\ calls["t2"].ref = 6
    /\ Len(heap) = 9
    /\ Deref(heap, calls["t2"].ref) = <<11, 12>>

====
